---- MODULE Spec2Model ----
(***************************************************************************)
(* The batch retrieval engine of Gitiy/Calendar: Downloader::download      *)
(* (download_with_retry / execute_download) and Downloader::download_batch *)
(* with its semaphore, spawned tasks and aggregation loop, together with   *)
(* DownloadStats and the RetryableError classifier.                        *)
(*                                                                         *)
(* Abstractions:                                                           *)
(*  - a calendar date is a record [year, month, day]; a formatted date     *)
(*    ("%Y-%m-%d") is the tuple of its three printed fields;               *)
(*  - an error message is the set of classifier patterns it contains       *)
(*    (after lower-casing), so `contains` is membership;                   *)
(*  - a file is its content tag; its embedded date tag and its timestamp   *)
(*    are kept per path;                                                   *)
(*  - one request/response exchange of a task is one step.                 *)
(***************************************************************************)
EXTENDS Integers, Sequences, FiniteSets, TLC

\* ------------------------------------------------------------- bounds
MaxDates == 2
MaxConcurrent == 2
MaxTaskDates == 1
MaxAttempt == 12
MaxPhrases == 2
MaxTotal == 5
MaxRecords == 5

\* -------------------------------------------------- program constants
MAX_RETRIES == 3
BASE_DELAY_MS == 1000
MAX_DELAY_MS == 30000
FIRST_RETRY_SLEEP_MS == 2000
DEFAULT_MAX_RETRIES == 3
DEFAULT_BASE_DELAY_MS == 1000
DEFAULT_MAX_DELAY_MS == 30000
CONFIG_MAX_DELAY_MS == 30000
MAX_BACKOFF_EXPONENT == 10

VARIABLES
    entry,           \* "download_batch" or "download": the function called
    dates,           \* the input date list (one date for download)
    max_concurrent,  \* Semaphore::new(max_concurrent)
    overwrite,
    download_only,
    retry_config,    \* the Downloader's RetryConfig
    process,         \* the process_dates call the batch was started by, if any
    first_run,       \* outcomes of the same call made once before, if any
    call,            \* a call of one of the pure functions: name, argument, result
    next_date,       \* number of dates the admission loop has gone through
    permits,         \* permits available in the semaphore
    tasks,           \* FuturesUnordered: indices of the tasks not yet consumed
    stats,           \* DownloadStats
    returned,        \* download_batch has returned stats
    task,            \* per-date task state
    files,           \* path -> content tag ("none" when absent)
    exif_time,       \* path -> embedded date tag
    file_time        \* path -> filesystem timestamp

vars == <<entry, dates, max_concurrent, overwrite, download_only, retry_config,
          process, first_run, call,
          next_date, permits, tasks, stats, returned, task,
          files, exif_time, file_time>>

\* what a call is given: no step of the call changes it
inputs == <<entry, dates, max_concurrent, overwrite, download_only, retry_config,
            process, first_run>>

\* ------------------------------------------------------------- dates
Dates ==
    { [year |-> 2023, month |-> 12, day |-> 31],
      [year |-> 2024, month |-> 1, day |-> 1] }

\* date_utils::format_date: "%Y-%m-%d", as the tuple of the printed fields
format_date(d) == <<d.year, d.month, d.day>>

\* Downloader::build_path with the format "{yyyy}{mm}{dd}.jpg": the year
\* directory joined with the formatted file name
build_path(d) == [dir |-> d.year, name |-> <<d.year, d.month, d.day>>]

Paths == { build_path(d) : d \in Dates }

\* date.and_hms_opt(0, 0, 0): midnight of the date
Midnight(d) == <<d.year, d.month, d.day, 0, 0, 0>>

\* the date tag / timestamp of a file nobody has repaired
StaleTime == <<1970, 1, 1, 12, 0, 0>>

Min(a, b) == IF a < b THEN a ELSE b

RECURSIVE Pow2(_)
Pow2(n) == IF n = 0 THEN 1 ELSE 2 * Pow2(n - 1)

\* ------------------------------------------------------ error messages
\* A message is the set of patterns it contains; a longer pattern brings
\* the shorter ones that are substrings of it.
Implied(p) ==
    CASE p = "connection timed out" -> {"timed out", "connection"}
      [] p = "connection refused"   -> {"connection"}
      [] p = "connection reset"     -> {"connection"}
      [] p = "connection closed"    -> {"connection"}
      [] p = "invalid utf"          -> {"utf"}
      [] OTHER                      -> {}

Message(phrases) == phrases \cup UNION { Implied(p) : p \in phrases }

\* char-wise lower-casing of a phrase
Lower(p) ==
    CASE p = "TIMED OUT"          -> "timed out"
      [] p = "Connection Refused" -> "connection refused"
      [] p = "TLS"                -> "tls"
      [] OTHER                    -> p

\* str::to_lowercase: the patterns the lower-cased message contains
to_lowercase(msg) == Message({ Lower(p) : p \in msg })

\* str::contains on the lower-cased message
Contains(msg, pat) == pat \in msg

MsgUnmatched == Message({})
MsgRefused == Message({"connection refused"})
MsgDecode == Message({"decode"})
MsgTimedOut == Message({"timed out"})
\* "服务器返回空响应": the text of the empty-response error, no pattern in it
MsgEmptyResponse == Message({"empty response"})

\* ------------------------------------------------- RetryableError (error.rs)
Category(c, status, msg) == [cat |-> c, status |-> status, msg |-> msg]

NoCategory == Category("None", 0, {})

is_server_error(status) == status >= 500 /\ status <= 599

is_success(status) == status >= 200 /\ status <= 299

from_error_message_timed_out_first(err_msg, status) ==
    LET err_lower == to_lowercase(err_msg)
    IN  IF status = 429 THEN Category("TooManyRequests", 0, {})
        ELSE IF status # 0 /\ is_server_error(status)
            THEN Category("ServerError", status, {})
        ELSE IF Contains(err_lower, "timed out")
            THEN Category("ReadTimeout", 0, {})
        ELSE IF Contains(err_lower, "connection timed out")
            THEN Category("ConnectionTimeout", 0, {})
        ELSE IF \/ Contains(err_lower, "dns")
                \/ Contains(err_lower, "name or service not known")
                \/ Contains(err_lower, "no address associated with name")
            THEN Category("DnsFailed", 0, {})
        ELSE IF Contains(err_lower, "connection refused")
            THEN Category("ConnectionRefused", 0, {})
        ELSE IF \/ Contains(err_lower, "network is unreachable")
                \/ Contains(err_lower, "connection reset")
                \/ Contains(err_lower, "broken pipe")
                \/ Contains(err_lower, "connection closed")
            THEN Category("ConnectionFailed", 0, {})
        ELSE IF \/ Contains(err_lower, "tls")
                \/ Contains(err_lower, "ssl")
                \/ Contains(err_lower, "certificate")
            THEN Category("TlsFailed", 0, {})
        ELSE IF \/ Contains(err_lower, "decode")
                \/ Contains(err_lower, "utf")
                \/ Contains(err_lower, "invalid utf")
                \/ Contains(err_lower, "stream")
            THEN Category("DecodingFailed", 0, err_msg)
        ELSE Category("Unknown", 0, err_msg)

\* RetryableError::from_error_message; status 0 stands for Option::None
from_error_message(err_msg, status) ==
    LET err_lower == to_lowercase(err_msg)
    IN  IF status = 429 THEN Category("TooManyRequests", 0, {})
        ELSE IF status # 0 /\ is_server_error(status)
            THEN Category("ServerError", status, {})
        ELSE IF Contains(err_lower, "connection timed out")
            THEN Category("ConnectionTimeout", 0, {})
        ELSE IF Contains(err_lower, "timed out")
            THEN Category("ReadTimeout", 0, {})
        ELSE IF \/ Contains(err_lower, "dns")
                \/ Contains(err_lower, "name or service not known")
                \/ Contains(err_lower, "no address associated with name")
            THEN Category("DnsFailed", 0, {})
        ELSE IF Contains(err_lower, "connection refused")
            THEN Category("ConnectionRefused", 0, {})
        ELSE IF \/ Contains(err_lower, "network is unreachable")
                \/ Contains(err_lower, "connection reset")
                \/ Contains(err_lower, "broken pipe")
                \/ Contains(err_lower, "connection closed")
            THEN Category("ConnectionFailed", 0, {})
        ELSE IF \/ Contains(err_lower, "tls")
                \/ Contains(err_lower, "ssl")
                \/ Contains(err_lower, "certificate")
            THEN Category("TlsFailed", 0, {})
        ELSE IF \/ Contains(err_lower, "decode")
                \/ Contains(err_lower, "utf")
                \/ Contains(err_lower, "invalid utf")
                \/ Contains(err_lower, "stream")
            THEN Category("DecodingFailed", 0, err_msg)
        ELSE Category("Unknown", 0, err_msg)

is_retryable_decoding_excluded(re) ==
    re.cat \notin {"Unknown", "DecodingFailed"}

\* RetryableError::is_retryable
is_retryable(re) ==
    CASE re.cat \in {"ConnectionTimeout", "DnsFailed", "ConnectionRefused",
                     "ConnectionFailed", "ReadTimeout", "WriteTimeout",
                     "TlsFailed", "TooManyRequests", "ServerError",
                     "DecodingFailed"} -> TRUE
      [] re.cat = "Unknown" -> FALSE

\* RetryableError::suggested_delay_ms
suggested_delay_ms(re) ==
    CASE re.cat = "TooManyRequests" -> 5000
      [] re.cat = "ServerError" -> 2000
      [] re.cat = "ConnectionTimeout" -> 1000
      [] re.cat = "DnsFailed" -> 2000
      [] re.cat = "ConnectionRefused" -> 2000
      [] re.cat = "ConnectionFailed" -> 2000
      [] re.cat = "ReadTimeout" -> 1000
      [] re.cat = "WriteTimeout" -> 1000
      [] re.cat = "TlsFailed" -> 3000
      [] re.cat = "DecodingFailed" -> 1000
      [] re.cat = "Unknown" -> 0

\* ------------------------------------------------------- AppError (error.rs)
AppErr(t, status, details) == [type |-> t, status |-> status, details |-> details]

NoError == AppErr("none", 0, {})
NetworkError(details) == AppErr("NetworkError", 0, details)
HttpError(status) == AppErr("HttpError", status, {})
FileError == AppErr("FileError", 0, {})

\* Downloader::classify_error; NoCategory stands for Option::None
classify_error(error) ==
    CASE error.type = "NetworkError" -> from_error_message(error.details, 0)
      [] error.type = "HttpError" ->
            IF error.status = 429 THEN Category("TooManyRequests", 0, {})
            ELSE IF is_server_error(error.status)
                THEN Category("ServerError", error.status, {})
            ELSE Category("Unknown", 0, {})
      [] OTHER -> NoCategory

\* ------------------------------------------------------------ responses
\* What one GET can come back with: a transport error, a non-success
\* status, or a success status whose body is data, empty or unreadable.
Resp(k, status, msg) == [kind |-> k, status |-> status, msg |-> msg]

NoResponse == Resp("none", 0, {})
SendErr(msg) == Resp("send_err", 0, msg)
Status(code) == Resp("status", code, {})
BodyOk == Resp("body_ok", 200, {})
BodyEmpty == Resp("body_empty", 200, {})
BodyErr(msg) == Resp("body_err", 200, msg)

CoreResponses == { BodyOk, Status(404), Status(500) }

\* results of a metadata-repair call: TRUE for Ok, FALSE for Err
CoreRepairResults == { TRUE }

RepairResults == BOOLEAN

AllResponses ==
    { BodyOk, BodyEmpty,
      Status(403), Status(404), Status(429), Status(500),
      SendErr(MsgUnmatched), SendErr(MsgRefused),
      BodyErr(MsgUnmatched), BodyErr(MsgDecode), BodyErr(MsgTimedOut) }

\* ----------------------------------------------------- DownloadStats (lib.rs)
\* DownloadStats::new
new_stats(total) ==
    [total |-> total, succeeded |-> 0, failed |-> 0, skipped |-> 0,
     failed_dates |-> <<>>, succeeded_dates |-> <<>>]

\* DownloadStats::record_success
record_success(s) == [s EXCEPT !.succeeded = @ + 1]

\* DownloadStats::record_success_with_date
record_success_with_date(s, date) ==
    [s EXCEPT !.succeeded = @ + 1, !.succeeded_dates = Append(@, date)]

record_failure_date_dropped(s, date) == [s EXCEPT !.failed = @ + 1]

\* DownloadStats::record_failure
record_failure(s, date) ==
    [s EXCEPT !.failed = @ + 1, !.failed_dates = Append(@, date)]

record_skip_uncounted(s) == s

\* DownloadStats::record_skip
record_skip(s) == [s EXCEPT !.skipped = @ + 1]

RECURSIVE GCD(_, _)
GCD(a, b) == IF b = 0 THEN a ELSE GCD(b, a % b)

\* the number num/den in lowest terms: the f64 values of the program,
\* without their rounding
Ratio(num, den) ==
    LET g == GCD(num, den)
    IN  IF num = 0 THEN [num |-> 0, den |-> 1]
        ELSE [num |-> num \div g, den |-> den \div g]

TimesInt(q, n) == Ratio(q.num * n, q.den)

success_rate_counts_skipped(s) ==
    IF s.total = 0 THEN Ratio(0, 1)
    ELSE TimesInt(Ratio(s.succeeded + s.skipped, s.total), 100)

\* DownloadStats::success_rate
success_rate(s) ==
    IF s.total = 0 THEN Ratio(0, 1)
    ELSE TimesInt(Ratio(s.succeeded, s.total), 100)

\* Option::None of an Option<NaiveDate>
NoDate == [year |-> 0, month |-> 0, day |-> 0]

\* NaiveDate::parse_from_str(d, "%Y-%m-%d") on a formatted date
parse_from_str(date_str) ==
    [year |-> date_str[1], month |-> date_str[2], day |-> date_str[3]]

\* Ord of NaiveDate
date_le(a, b) ==
    \/ a.year < b.year
    \/ a.year = b.year /\ a.month < b.month
    \/ a.year = b.year /\ a.month = b.month /\ a.day <= b.day

\* Iterator::max over a non-empty set of dates
max_date(S) == CHOOSE d \in S : \A e \in S : date_le(e, d)

\* DownloadStats::latest_success_date
latest_success_date(s) ==
    IF s.succeeded_dates = <<>> THEN NoDate
    ELSE max_date({ parse_from_str(s.succeeded_dates[k]) :
                        k \in 1..Len(s.succeeded_dates) })

\* ---------------------------------------------------------- RetryConfig
\* impl Default for RetryConfig (used by Downloader::new)
default_retry_config ==
    [max_retries |-> DEFAULT_MAX_RETRIES, base_delay_ms |-> DEFAULT_BASE_DELAY_MS,
     max_delay_ms |-> DEFAULT_MAX_DELAY_MS, enabled |-> TRUE]

\* Config::retry_config (handed to Downloader::with_retry_config by main.rs)
config_retry_config(max_retries, retry_delay_ms) ==
    [max_retries |-> max_retries, base_delay_ms |-> retry_delay_ms,
     max_delay_ms |-> CONFIG_MAX_DELAY_MS, enabled |-> max_retries > 0]

\* the max_retries values of the configurations explored
RetryChoices == {0, 1, 3}

calculate_delay_uncapped(attempt, base_delay, max_delay) ==
    base_delay * Pow2(Min(attempt, MAX_BACKOFF_EXPONENT))

\* Downloader::calculate_delay (u64 arithmetic; the operands explored keep
\* the product far below 2^64, so no wrap-around is involved)
calculate_delay(attempt, base_delay, max_delay) ==
    Min(base_delay * Pow2(Min(attempt, MAX_BACKOFF_EXPONENT)), max_delay)

\* ------------------------------------------------------------ task state
NoResult == [kind |-> "none", date_str |-> <<>>, error |-> NoError]

\* the task's return value (date_str, Ok((path, existed)))
ResultOk(d, existed) ==
    [kind |-> IF existed THEN "existed" ELSE "downloaded",
     date_str |-> format_date(d), error |-> NoError]

\* the task's return value (date_str, Err(e))
ResultErr(d, e) == [kind |-> "failed", date_str |-> format_date(d), error |-> e]

\* A task before admission.  attempt is the index of its current iteration
\* of the retry loop and delay the backoff slept before that iteration (in
\* download_batch both are locals of the loop, gone once it has yielded the
\* bytes; a task that failed in the loop keeps the index of the iteration
\* that failed); resp is the outcome of its latest request (NoResponse: it
\* has sent none); writes, exif_calls and time_calls count its calls of
\* tokio::fs::write, set_exif_datetime and set_file_timestamps.
NewTask ==
    [pc |-> "pending", attempt |-> 0, permit |-> "none", found |-> "unchecked",
     resp |-> NoResponse, bytes |-> "none", writes |-> 0,
     exif_calls |-> 0, time_calls |-> 0, delay |-> 0, result |-> NoResult]

\* What is left of a task once the aggregation loop has taken its output:
\* the output itself.
Consumed(t) ==
    [NewTask EXCEPT !.pc = "consumed", !.permit = t.permit, !.result = t.result]

permit_scope_leaked(permit, pc_next) == permit

permit_scope_fetch_only(permit, pc_next) ==
    IF permit = "held" /\ pc_next \in {"done", "write"} THEN "released" ELSE permit

\* The OwnedSemaphorePermit is moved into the spawned future and dropped
\* when the future ends (drop(permit) on the success path, scope end on the
\* early returns): it is held at every other position of the task.
permit_scope(permit, pc_next) ==
    IF permit = "held" /\ pc_next = "done" THEN "released" ELSE permit

Advance(t, pc_next) ==
    [t EXCEPT !.pc = pc_next, !.permit = permit_scope(@, pc_next)]

Finish(t, result) == [Advance(t, "done") EXCEPT !.result = result]

\* unreachable!() panics: the future is dropped, and its permit with it
Panic(t) ==
    [t EXCEPT !.pc = "unreachable",
              !.permit = IF @ = "held" THEN "released" ELSE @]

Released_unless_failed(t, t_next) ==
    IF t.permit = "held" /\ t_next.permit = "released" /\ t_next.result.kind # "failed"
    THEN 1 ELSE 0

\* permits handed back to the semaphore by a step from t to t_next
Released(t, t_next) ==
    IF t.permit = "held" /\ t_next.permit = "released" THEN 1 ELSE 0

batch_skip_negation_lost(exists, ow) == exists /\ ow

batch_skip_never(exists, ow) == FALSE

batch_skip_overwrite_ignored(exists, ow) == exists

\* `path.exists() && !overwrite` of download_batch
batch_skip(exists, ow) == exists /\ ~ow

\* `path.exists() && !overwrite` of download_with_retry
download_skip(exists, ow) == exists /\ ~ow

\* ------------------------------------------ the retry loop of download_batch
Retry == [next |-> "retry", error |-> NoError]
Fetched == [next |-> "ok", error |-> NoError]
Fail_unmatched_message(e) == [next |-> "fail", error |-> NetworkError(MsgUnmatched)]

Fail(e) == [next |-> "fail", error |-> e]

\* the sleep at the head of iteration `attempt` (attempt > 0)
batch_sleep_ms(attempt) ==
    IF attempt = 1 THEN FIRST_RETRY_SLEEP_MS
    ELSE Min(BASE_DELAY_MS * Pow2(Min(attempt, MAX_BACKOFF_EXPONENT)), MAX_DELAY_MS)

\* is_retryable of the body-read branch
batch_body_retryable(err_msg) ==
    LET err_lower == to_lowercase(err_msg)
    IN  \/ Contains(err_lower, "decode")
        \/ Contains(err_lower, "stream")
        \/ Contains(err_lower, "connection")
        \/ Contains(err_lower, "timeout")

batch_attempt_404_retried(r, attempt) ==
    IF r.kind = "send_err"
        THEN IF attempt = MAX_RETRIES THEN Fail(NetworkError(r.msg)) ELSE Retry
    ELSE IF ~is_success(r.status)
        THEN IF attempt = MAX_RETRIES THEN Fail(HttpError(r.status)) ELSE Retry
    ELSE IF r.kind = "body_err"
        THEN IF ~batch_body_retryable(r.msg) \/ attempt = MAX_RETRIES
                THEN Fail(NetworkError(r.msg))
             ELSE Retry
    ELSE IF r.kind = "body_empty"
        THEN IF attempt = MAX_RETRIES THEN Fail(NetworkError(MsgEmptyResponse))
             ELSE Retry
    ELSE Fetched

batch_attempt_empty_accepted(r, attempt) ==
    IF r.kind = "send_err"
        THEN IF attempt = MAX_RETRIES THEN Fail(NetworkError(r.msg)) ELSE Retry
    ELSE IF ~is_success(r.status)
        THEN IF r.status = 404 THEN Fail(HttpError(r.status))
             ELSE IF attempt = MAX_RETRIES THEN Fail(HttpError(r.status))
             ELSE Retry
    ELSE IF r.kind = "body_err"
        THEN IF ~batch_body_retryable(r.msg) \/ attempt = MAX_RETRIES
                THEN Fail(NetworkError(r.msg))
             ELSE Retry
    ELSE Fetched

batch_attempt_one_more(r, attempt) ==
    IF r.kind = "send_err"
        THEN IF attempt = MAX_RETRIES + 1 THEN Fail(NetworkError(r.msg)) ELSE Retry
    ELSE IF ~is_success(r.status)
        THEN IF r.status = 404 THEN Fail(HttpError(r.status))
             ELSE IF attempt = MAX_RETRIES + 1 THEN Fail(HttpError(r.status))
             ELSE Retry
    ELSE IF r.kind = "body_err"
        THEN IF ~batch_body_retryable(r.msg) \/ attempt = MAX_RETRIES + 1
                THEN Fail(NetworkError(r.msg))
             ELSE Retry
    ELSE IF r.kind = "body_empty"
        THEN IF attempt = MAX_RETRIES + 1 THEN Fail(NetworkError(MsgEmptyResponse))
             ELSE Retry
    ELSE Fetched

\* one iteration of `for attempt in 0..=MAX_RETRIES` on response r
batch_attempt(r, attempt) ==
    IF r.kind = "send_err"
        THEN IF attempt = MAX_RETRIES THEN Fail(NetworkError(r.msg)) ELSE Retry
    ELSE IF ~is_success(r.status)
        THEN IF r.status = 404 THEN Fail(HttpError(r.status))
             ELSE IF attempt = MAX_RETRIES THEN Fail(HttpError(r.status))
             ELSE Retry
    ELSE IF r.kind = "body_err"
        THEN IF ~batch_body_retryable(r.msg) \/ attempt = MAX_RETRIES
                THEN Fail(NetworkError(r.msg))
             ELSE Retry
    ELSE IF r.kind = "body_empty"
        THEN IF attempt = MAX_RETRIES THEN Fail(NetworkError(MsgEmptyResponse))
             ELSE Retry
    ELSE Fetched

\* -------------------------------------- the retry loop of download_with_retry
\* the error execute_download returns for response r (NoError: body read)
execute_download_error(r) ==
    IF r.kind = "send_err" THEN NetworkError(r.msg)
    ELSE IF ~is_success(r.status) THEN HttpError(r.status)
    ELSE IF r.kind = "body_err" THEN NetworkError(r.msg)
    ELSE NoError

download_after_error_unclassified(e, attempt, rc) ==
    IF ~rc.enabled THEN Fail(e)
    ELSE IF attempt < rc.max_retries THEN Retry ELSE Fail(e)

\* what download_with_retry does with Err(e) of attempt `attempt`
download_after_error(e, attempt, rc) ==
    IF ~rc.enabled THEN Fail(e)
    ELSE LET re == classify_error(e)
             retryable == IF re = NoCategory THEN FALSE ELSE is_retryable(re)
         IN  IF retryable /\ attempt < rc.max_retries THEN Retry ELSE Fail(e)

\* ------------------------------------------------------------ file system
\* tokio::fs::write can fail before the file is created (nothing changes)
\* or while writing (a truncated file is left behind).
WriteResults == {"ok", "create_err", "write_err"}

CoreWriteResults == {"ok", "create_err"}

\* content of the file at the path after tokio::fs::write(path, bytes)
written_content(old, bytes, w) ==
    CASE w = "ok" -> IF bytes = "empty" THEN "empty" ELSE "new"
      [] w = "create_err" -> old
      [] w = "write_err" -> "partial"

\* exif::set_exif_datetime(path, datetime) ending Ok (ok) or Err
set_exif_datetime(tags, path, datetime, ok) ==
    IF ok THEN [tags EXCEPT ![path] = datetime] ELSE tags

\* fileops::set_file_timestamps(path, datetime_utc) ending Ok (ok) or Err
set_file_timestamps(times, path, datetime, ok) ==
    IF ok THEN [times EXCEPT ![path] = datetime] ELSE times

SeqsUpTo(S, n) == UNION { [1..k -> S] : k \in 0..n }

\* ---------------------------------------------------------- process_dates
PROCESS_MAX_CONCURRENT == 1

\* download_batch called directly (run command), not through process_dates
NoProcess == [called |-> FALSE, metadata_only |-> FALSE]

process_download_only_forced_false(metadata_only) == FALSE

\* the download_only argument process_dates hands to download_batch
process_download_only(metadata_only) ==
    IF metadata_only THEN TRUE ELSE FALSE

\* no pure function is being called
NoCall == [fn |-> "none", arg |-> <<>>, done |-> FALSE, ret |-> <<>>]

\* fn(arg) is about to be evaluated
Call(fn, arg) == [fn |-> fn, arg |-> arg, done |-> FALSE, ret |-> <<>>]

\* no earlier call
NoRun == [ran |-> FALSE, results |-> <<>>, files |-> <<>>]

\* ------------------------------------------------------------------ Init
InitFiles ==
    /\ files \in [Paths -> {"none", "old"}]
    /\ exif_time = [p \in Paths |-> StaleTime]
    /\ file_time = [p \in Paths |-> StaleTime]

\* download_batch is entered: semaphore, empty FuturesUnordered, fresh stats
InitBatch(max_dates, concurrency) ==
    /\ entry = "download_batch"
    /\ dates \in SeqsUpTo(Dates, max_dates)
    /\ max_concurrent \in concurrency
    /\ permits = max_concurrent
    /\ tasks = {}
    /\ stats = new_stats(Len(dates))
    /\ next_date = 0
    /\ returned = FALSE
    /\ task = [i \in 1..Len(dates) |-> NewTask]

\* Downloader::download is entered for one date
InitDownload ==
    /\ entry = "download"
    /\ dates \in [1..1 -> Dates]
    /\ max_concurrent = 0
    /\ permits = 0
    /\ tasks = {}
    /\ stats = new_stats(0)
    /\ next_date = 0
    /\ returned = FALSE
    /\ task = [i \in 1..1 |-> [NewTask EXCEPT !.pc = "check"]]

\* the batch of the run command with the default retry policy
Init ==
    /\ InitBatch(MaxDates, 0..MaxConcurrent)
    /\ overwrite \in BOOLEAN
    /\ download_only \in BOOLEAN
    /\ retry_config = default_retry_config
    /\ process = NoProcess
    /\ first_run = NoRun
    /\ call = NoCall
    /\ InitFiles

\* the batch of the run command where the file of 2023-12-31 is there
\* already and the file of 2024-01-01 is not, repairs enabled: a batch of
\* tasks that skip and tasks that fetch, each with every step
InitLive ==
    /\ InitBatch(MaxDates, 0..MaxConcurrent)
    /\ overwrite \in BOOLEAN
    /\ download_only = FALSE
    /\ retry_config = default_retry_config
    /\ process = NoProcess
    /\ first_run = NoRun
    /\ call = NoCall
    /\ files = [p \in Paths |-> IF p.dir = 2023 THEN "old" ELSE "none"]
    /\ exif_time = [p \in Paths |-> StaleTime]
    /\ file_time = [p \in Paths |-> StaleTime]

\* one task at a time under the default retry policy, through either entry
\* point
InitRerun ==
    /\ \/ InitBatch(MaxTaskDates, {1})
       \/ InitDownload
    /\ overwrite \in BOOLEAN
    /\ download_only \in BOOLEAN
    /\ retry_config = default_retry_config
    /\ process = NoProcess
    /\ first_run = NoRun
    /\ call = NoCall
    /\ InitFiles

\* the base_delay_ms and max_delay_ms of the RetryConfigs explored
BaseDelays == {0, 1, 1000, 1500, 2000000}

MaxDelays == {0, 1000, 30000, 60000}

\* calculate_delay is about to be called with an attempt index and the
\* delays of the Downloader's RetryConfig; nothing else is going on
InitDelay ==
    /\ entry = "calculate_delay"
    /\ dates = <<>>
    /\ max_concurrent = 0
    /\ overwrite = FALSE
    /\ download_only = FALSE
    /\ retry_config \in [max_retries : {DEFAULT_MAX_RETRIES},
                         base_delay_ms : BaseDelays,
                         max_delay_ms : MaxDelays,
                         enabled : {TRUE}]
    /\ process = NoProcess
    /\ first_run = NoRun
    /\ call = NoCall
    /\ next_date = 0
    /\ permits = 0
    /\ tasks = {}
    /\ stats = new_stats(0)
    /\ returned = FALSE
    /\ task \in { [i \in 1..1 |-> [NewTask EXCEPT !.pc = "delay", !.attempt = a]] :
                    a \in 0..MaxAttempt }
    /\ files = [p \in Paths |-> "none"]
    /\ exif_time = [p \in Paths |-> StaleTime]
    /\ file_time = [p \in Paths |-> StaleTime]

InitProcess_configured_concurrency ==
    /\ process \in [called : {TRUE}, metadata_only : BOOLEAN]
    /\ InitBatch(MaxDates, {MaxConcurrent})
    /\ overwrite \in BOOLEAN
    /\ download_only = process_download_only(process.metadata_only)
    /\ retry_config = default_retry_config
    /\ first_run = NoRun
    /\ call = NoCall
    /\ InitFiles

\* nothing of the engine is running: only a pure function is called
IdleEngine ==
    /\ dates = <<>>
    /\ max_concurrent = 0
    /\ overwrite = FALSE
    /\ download_only = FALSE
    /\ retry_config = default_retry_config
    /\ process = NoProcess
    /\ first_run = NoRun
    /\ next_date = 0
    /\ permits = 0
    /\ tasks = {}
    /\ returned = FALSE
    /\ task = <<>>
    /\ files = [p \in Paths |-> "none"]
    /\ exif_time = [p \in Paths |-> StaleTime]
    /\ file_time = [p \in Paths |-> StaleTime]

\* what the classifier looks for in a message, some of it in upper case,
\* and a phrase it does not look for
Phrases ==
    { "connection timed out", "timed out",
      "dns", "name or service not known", "no address associated with name",
      "connection refused",
      "network is unreachable", "connection reset", "broken pipe",
      "connection closed",
      "tls", "ssl", "certificate",
      "decode", "utf", "invalid utf", "stream",
      "TIMED OUT", "Connection Refused", "TLS",
      "permission denied" }

\* error messages: up to MaxPhrases of the phrases in one message
ErrorMessages ==
    { Message(ps) : ps \in { q \in SUBSET Phrases : Cardinality(q) <= MaxPhrases } }

\* Option<StatusCode> arguments; 0 stands for None
StatusArgs == {0, 403, 429, 500, 503}

\* every RetryableError value of interest
Categories ==
    { Category(c, 0, {}) :
        c \in {"ConnectionTimeout", "DnsFailed", "ConnectionRefused",
               "ConnectionFailed", "ReadTimeout", "WriteTimeout", "TlsFailed",
               "TooManyRequests"} }
    \cup { Category("ServerError", st, {}) : st \in {500, 503} }
    \cup { Category(c, 0, m) : c \in {"DecodingFailed", "Unknown"},
                               m \in {MsgUnmatched, MsgDecode} }

\* a call of one of the classifier's functions is about to be made
InitClassify ==
    /\ entry = "classifier"
    /\ IdleEngine
    /\ stats = new_stats(0)
    /\ call \in { Call("from_error_message", [msg |-> m, status |-> st]) :
                    m \in ErrorMessages, st \in StatusArgs }
              \cup { Call(fn, c) : fn \in {"is_retryable", "suggested_delay_ms"},
                                   c \in Categories }

\* DownloadStats::new(total), nothing recorded yet
InitStats ==
    /\ entry = "stats"
    /\ IdleEngine
    /\ stats \in { new_stats(total) : total \in 0..MaxTotal }
    /\ call = NoCall

\* process_dates: download_batch with the concurrency 1 and download_only
\* taken from metadata_only
InitProcess ==
    /\ process \in [called : {TRUE}, metadata_only : BOOLEAN]
    /\ InitBatch(MaxDates, {PROCESS_MAX_CONCURRENT})
    /\ overwrite \in BOOLEAN
    /\ download_only = process_download_only(process.metadata_only)
    /\ retry_config = default_retry_config
    /\ first_run = NoRun
    /\ call = NoCall
    /\ InitFiles

\* one task at a time, under every configured retry policy and under one
\* given to with_retry_config (retry enabled with max_retries = 0), through
\* either entry point
InitTask ==
    /\ \/ InitBatch(MaxTaskDates, {1})
       \/ InitDownload
    /\ overwrite \in BOOLEAN
    /\ download_only \in BOOLEAN
    /\ retry_config \in { config_retry_config(m, DEFAULT_BASE_DELAY_MS) : m \in RetryChoices }
                        \cup { [default_retry_config EXCEPT !.max_retries = 0] }
    /\ process = NoProcess
    /\ first_run = NoRun
    /\ call = NoCall
    /\ InitFiles

\* ------------------------------------------------- download_batch: coordinator
acquire_owned_unbounded(available) == TRUE

\* semaphore.acquire_owned() completes only when a permit is available
acquire_owned(available) == available > 0

admission_over_on_failure ==
    \/ next_date = Len(dates)
    \/ \E i \in 1..next_date : task[i].result.kind = "failed"

\* `for date in dates` has gone through the whole list
admission_over == next_date = Len(dates)

Admit_any_pending ==
    /\ entry = "download_batch"
    /\ ~returned
    /\ ~admission_over
    /\ acquire_owned(permits)
    /\ permits' = permits - 1
    /\ next_date' = next_date + 1
    /\ \E k \in 1..Len(dates) :
        /\ task[k].pc = "pending"
        /\ tasks' = tasks \cup {k}
        /\ task' = [task EXCEPT ![k] = [@ EXCEPT !.pc = "check", !.permit = "held"]]
    /\ UNCHANGED <<inputs, call, stats, returned, files, exif_time, file_time>>

\* one iteration of `for date in dates`: acquire a permit, spawn the task
Admit ==
    /\ entry = "download_batch"
    /\ ~returned
    /\ ~admission_over
    /\ acquire_owned(permits)
    /\ permits' = permits - 1
    /\ next_date' = next_date + 1
    /\ tasks' = tasks \cup {next_date + 1}
    /\ task' = [task EXCEPT ![next_date + 1] =
                    [@ EXCEPT !.pc = "check", !.permit = "held"]]
    /\ UNCHANGED <<inputs, call, stats, returned, files, exif_time, file_time>>

aggregate_failure_counted_twice(s, result) ==
    CASE result.kind = "existed" -> record_skip(s)
      [] result.kind = "downloaded" -> record_success(s)
      [] result.kind = "failed" ->
            record_failure(record_failure(s, result.date_str), result.date_str)

\* the match of the aggregation loop on one task's output
aggregate(s, result) ==
    CASE result.kind = "existed" -> record_skip(s)
      [] result.kind = "downloaded" -> record_success(s)
      [] result.kind = "failed" -> record_failure(s, result.date_str)

\* `while let Some(result) = tasks.next().await`: a finished task is consumed
Collect(i) ==
    /\ entry = "download_batch"
    /\ ~returned
    /\ admission_over
    /\ i \in tasks
    /\ task[i].pc = "done"
    /\ tasks' = tasks \ {i}
    /\ stats' = aggregate(stats, task[i].result)
    /\ task' = [task EXCEPT ![i] = Consumed(@)]
    /\ UNCHANGED <<inputs, call, next_date, permits, returned,
                   files, exif_time, file_time>>

stream_ended_one_early(pending) == Cardinality(pending) <= 1

\* tasks.next() yields None once the FuturesUnordered is empty
stream_ended(pending) == pending = {}

\* the aggregation loop ends and download_batch returns stats
Return ==
    /\ entry = "download_batch"
    /\ ~returned
    /\ admission_over
    /\ stream_ended(tasks)
    /\ returned' = TRUE
    /\ UNCHANGED <<inputs, call, next_date, permits, tasks, stats, task,
                   files, exif_time, file_time>>

\* a step of task i to state t_next that touches no file
TaskStep(i, t_next) ==
    /\ task' = [task EXCEPT ![i] = t_next]
    /\ permits' = permits + Released(task[i], t_next)
    /\ UNCHANGED <<inputs, call, next_date, tasks, stats, returned>>

\* ------------------------------------------------- download_batch: the task
\* the existence check at the head of the spawned task
batch_check(i) ==
    /\ entry = "download_batch"
    /\ task[i].pc = "check"
    /\ LET path == build_path(dates[i])
           exists == files[path] # "none"
           t == [task[i] EXCEPT !.found = IF exists THEN "exists" ELSE "missing"]
       IN  IF batch_skip(exists, overwrite)
           THEN IF ~download_only
                THEN TaskStep(i, Advance(t, "repair_existing"))
                ELSE TaskStep(i, Finish(t, ResultOk(dates[i], TRUE)))
           ELSE TaskStep(i, Advance(t, "fetch"))
    /\ UNCHANGED <<files, exif_time, file_time>>

batch_fetch_creates_file(i, r) ==
    /\ entry = "download_batch"
    /\ task[i].pc = "fetch"
    /\ LET a == task[i].attempt
           t == [task[i] EXCEPT !.resp = r]
           o == batch_attempt(r, a)
       IN  CASE o.next = "retry" ->
                    IF a < MAX_RETRIES
                    THEN TaskStep(i, [Advance(t, "fetch") EXCEPT
                            !.attempt = a + 1, !.delay = batch_sleep_ms(a + 1)])
                    ELSE TaskStep(i, Panic(t))
             [] o.next = "ok" ->
                    TaskStep(i, [Advance(t, "write") EXCEPT
                        !.bytes = IF r.kind = "body_empty" THEN "empty" ELSE "data",
                        !.attempt = 0, !.delay = 0])
             [] o.next = "fail" ->
                    TaskStep(i, Finish(t, ResultErr(dates[i], o.error)))
    /\ files' = [files EXCEPT ![build_path(dates[i])] = "partial"]
    /\ UNCHANGED <<exif_time, file_time>>

batch_fetch_five_attempts(i, r) ==
    /\ entry = "download_batch"
    /\ task[i].pc = "fetch"
    /\ LET a == task[i].attempt
           t == [task[i] EXCEPT !.resp = r]
           o == batch_attempt_one_more(r, a)
       IN  CASE o.next = "retry" ->
                    IF a < MAX_RETRIES + 1
                    THEN TaskStep(i, [Advance(t, "fetch") EXCEPT
                            !.attempt = a + 1, !.delay = batch_sleep_ms(a + 1)])
                    ELSE TaskStep(i, Panic(t))
             [] o.next = "ok" ->
                    TaskStep(i, [Advance(t, "write") EXCEPT
                        !.bytes = IF r.kind = "body_empty" THEN "empty" ELSE "data",
                        !.attempt = 0, !.delay = 0])
             [] o.next = "fail" ->
                    TaskStep(i, Finish(t, ResultErr(dates[i], o.error)))
    /\ UNCHANGED <<files, exif_time, file_time>>

\* one iteration of the retry loop: request, response r and, when the loop
\* continues, the sleep at the head of the next iteration; a `continue` in
\* the iteration MAX_RETRIES would end the loop and reach unreachable!()
batch_fetch(i, r) ==
    /\ entry = "download_batch"
    /\ task[i].pc = "fetch"
    /\ LET a == task[i].attempt
           t == [task[i] EXCEPT !.resp = r]
           o == batch_attempt(r, a)
       IN  CASE o.next = "retry" ->
                    IF a < MAX_RETRIES
                    THEN TaskStep(i, [Advance(t, "fetch") EXCEPT
                            !.attempt = a + 1, !.delay = batch_sleep_ms(a + 1)])
                    ELSE TaskStep(i, Panic(t))
             [] o.next = "ok" ->
                    TaskStep(i, [Advance(t, "write") EXCEPT
                        !.bytes = IF r.kind = "body_empty" THEN "empty" ELSE "data",
                        !.attempt = 0, !.delay = 0])
             [] o.next = "fail" ->
                    TaskStep(i, Finish(t, ResultErr(dates[i], o.error)))
    /\ UNCHANGED <<files, exif_time, file_time>>

batch_write_repair_after_failure(i, w) ==
    /\ entry = "download_batch"
    /\ task[i].pc = "write"
    /\ LET path == build_path(dates[i])
           t == [task[i] EXCEPT !.writes = @ + 1]
       IN  /\ files' = [files EXCEPT ![path] = written_content(@, t.bytes, w)]
           /\ IF ~download_only
              THEN TaskStep(i, Advance(t, "repair_written"))
              ELSE IF w = "ok"
                   THEN TaskStep(i, Finish(t, ResultOk(dates[i], FALSE)))
                   ELSE TaskStep(i, Finish(t, ResultErr(dates[i], FileError)))
    /\ UNCHANGED <<exif_time, file_time>>

batch_write_refetch(i, w) ==
    /\ entry = "download_batch"
    /\ task[i].pc = "write"
    /\ LET path == build_path(dates[i])
           t == [task[i] EXCEPT !.writes = @ + 1]
       IN  /\ files' = [files EXCEPT ![path] = written_content(@, t.bytes, w)]
           /\ IF w = "ok"
              THEN IF ~download_only
                   THEN TaskStep(i, Advance(t, "repair_written"))
                   ELSE TaskStep(i, Finish(t, ResultOk(dates[i], FALSE)))
              ELSE IF task[i].writes = 0
                   THEN TaskStep(i, Advance(t, "fetch"))
                   ELSE TaskStep(i, Finish(t, ResultErr(dates[i], FileError)))
    /\ UNCHANGED <<exif_time, file_time>>

\* tokio::fs::write(&path, bytes) and the match on its result
batch_write(i, w) ==
    /\ entry = "download_batch"
    /\ task[i].pc = "write"
    /\ LET path == build_path(dates[i])
           t == [task[i] EXCEPT !.writes = @ + 1]
       IN  /\ files' = [files EXCEPT ![path] = written_content(@, t.bytes, w)]
           /\ IF w = "ok"
              THEN IF ~download_only
                   THEN TaskStep(i, Advance(t, "repair_written"))
                   ELSE TaskStep(i, Finish(t, ResultOk(dates[i], FALSE)))
              ELSE TaskStep(i, Finish(t, ResultErr(dates[i], FileError)))
    /\ UNCHANGED <<exif_time, file_time>>

Repair_last_admitted(i, existed, exif_ok, times_ok) ==
    LET path == build_path(dates[i])
        t == [task[i] EXCEPT !.exif_calls = @ + 1, !.time_calls = @ + 1]
    IN  /\ exif_time' = set_exif_datetime(exif_time, path,
                                           Midnight(dates[next_date]), exif_ok)
        /\ file_time' = set_file_timestamps(file_time, path,
                                             Midnight(dates[next_date]), times_ok)
        /\ TaskStep(i, Finish(t, ResultOk(dates[i], existed)))
        /\ UNCHANGED files

Repair_exif_error_propagated(i, existed, exif_ok, times_ok) ==
    LET path == build_path(dates[i])
        t == [task[i] EXCEPT !.exif_calls = @ + 1,
                             !.time_calls = IF exif_ok THEN @ + 1 ELSE @]
    IN  /\ exif_time' = set_exif_datetime(exif_time, path, Midnight(dates[i]), exif_ok)
        /\ file_time' = IF exif_ok
                         THEN set_file_timestamps(file_time, path,
                                                  Midnight(dates[i]), times_ok)
                         ELSE file_time
        /\ TaskStep(i, Finish(t, IF exif_ok THEN ResultOk(dates[i], existed)
                                  ELSE ResultErr(dates[i], FileError)))
        /\ UNCHANGED files

\* both metadata repairs of a task, then its return
Repair(i, existed, exif_ok, times_ok) ==
    LET path == build_path(dates[i])
        t == [task[i] EXCEPT !.exif_calls = @ + 1, !.time_calls = @ + 1]
    IN  /\ exif_time' = set_exif_datetime(exif_time, path, Midnight(dates[i]), exif_ok)
        /\ file_time' = set_file_timestamps(file_time, path, Midnight(dates[i]), times_ok)
        /\ TaskStep(i, Finish(t, ResultOk(dates[i], existed)))
        /\ UNCHANGED files

\* the repairs of the skip branch
batch_repair_existing(i, exif_ok, times_ok) ==
    /\ entry = "download_batch"
    /\ task[i].pc = "repair_existing"
    /\ Repair(i, TRUE, exif_ok, times_ok)

\* the repairs after a successful write, then drop(permit)
batch_repair_written(i, exif_ok, times_ok) ==
    /\ entry = "download_batch"
    /\ task[i].pc = "repair_written"
    /\ Repair(i, FALSE, exif_ok, times_ok)

\* ------------------------------------------------------ Downloader::download
\* download_with_retry up to the retry loop: existence check, then
\* ensure_dir_exists(parent)? (dir_ok: it returned Ok; it creates nothing,
\* and so cannot fail, when the parent exists, as it does where the file does)
download_check(dir_ok) ==
    /\ entry = "download"
    /\ task[1].pc = "check"
    /\ LET path == build_path(dates[1])
           exists == files[path] # "none"
           t == [task[1] EXCEPT !.found = IF exists THEN "exists" ELSE "missing"]
       IN  IF download_skip(exists, overwrite)
           THEN IF ~download_only
                THEN TaskStep(1, Advance(t, "repair_existing"))
                ELSE TaskStep(1, Finish(t, ResultOk(dates[1], TRUE)))
           ELSE IF dir_ok \/ exists
                THEN TaskStep(1, Advance(t, "fetch"))
                ELSE TaskStep(1, Finish(t, ResultErr(dates[1], FileError)))
    /\ UNCHANGED <<files, exif_time, file_time>>

\* what follows Err(e) of execute_download in download_with_retry; a
\* `continue` in the iteration max_retries would end the loop, whose
\* last_error is then Some(e): Err(e) after the loop, unreachable!() not
\* being reached even then
download_failed(t, e) ==
    LET o == download_after_error(e, t.attempt, retry_config)
    IN  IF o.next = "retry"
        THEN IF t.attempt < retry_config.max_retries
             THEN [Advance(t, "fetch") EXCEPT
                      !.attempt = @ + 1,
                      !.delay = calculate_delay(t.attempt, retry_config.base_delay_ms,
                                                retry_config.max_delay_ms)]
             ELSE [Finish(t, ResultErr(dates[1], e)) EXCEPT !.attempt = @ + 1]
        ELSE Finish(t, ResultErr(dates[1], o.error))

\* execute_download: the request and the reading of the body
execute_download_request(r) ==
    /\ entry = "download"
    /\ task[1].pc = "fetch"
    /\ LET t == [task[1] EXCEPT !.resp = r]
           e == execute_download_error(r)
       IN  IF e = NoError
           THEN TaskStep(1, [Advance(t, "write") EXCEPT
                    !.bytes = IF r.kind = "body_empty" THEN "empty" ELSE "data"])
           ELSE TaskStep(1, download_failed(t, e))
    /\ UNCHANGED <<files, exif_time, file_time>>

\* execute_download: tokio::fs::write(path, bytes)
execute_download_write(w) ==
    /\ entry = "download"
    /\ task[1].pc = "write"
    /\ LET path == build_path(dates[1])
           t == [task[1] EXCEPT !.writes = @ + 1]
       IN  /\ files' = [files EXCEPT ![path] = written_content(@, t.bytes, w)]
           /\ IF w = "ok"
              THEN IF ~download_only
                   THEN TaskStep(1, Advance(t, "repair_written"))
                   ELSE TaskStep(1, Finish(t, ResultOk(dates[1], FALSE)))
              ELSE TaskStep(1, download_failed(t, FileError))
    /\ UNCHANGED <<exif_time, file_time>>

\* the repairs of the skip branch of download_with_retry
download_repair_existing(exif_ok, times_ok) ==
    /\ entry = "download"
    /\ task[1].pc = "repair_existing"
    /\ Repair(1, TRUE, exif_ok, times_ok)

\* the repairs at the end of execute_download
execute_download_repair(exif_ok, times_ok) ==
    /\ entry = "download"
    /\ task[1].pc = "repair_written"
    /\ Repair(1, FALSE, exif_ok, times_ok)

\* self.calculate_delay(attempt, base_delay, max_delay) as download_with_retry
\* calls it
calculate_delay_call ==
    /\ entry = "calculate_delay"
    /\ task[1].pc = "delay"
    /\ TaskStep(1, [Advance(task[1], "done") EXCEPT
            !.delay = calculate_delay(task[1].attempt,
                                      retry_config.base_delay_ms,
                                      retry_config.max_delay_ms)])
    /\ UNCHANGED <<files, exif_time, file_time>>

\* what a call of a pure function leaves alone
engine == <<inputs, next_date, permits, tasks, stats, returned, task,
            files, exif_time, file_time>>

Returns(value) == call' = [call EXCEPT !.done = TRUE, !.ret = value]

from_error_message_call ==
    /\ call.fn = "from_error_message"
    /\ ~call.done
    /\ Returns(from_error_message(call.arg.msg, call.arg.status))
    /\ UNCHANGED engine

is_retryable_call ==
    /\ call.fn = "is_retryable"
    /\ ~call.done
    /\ Returns(is_retryable(call.arg))
    /\ UNCHANGED engine

suggested_delay_ms_call ==
    /\ call.fn = "suggested_delay_ms"
    /\ ~call.done
    /\ Returns(suggested_delay_ms(call.arg))
    /\ UNCHANGED engine

\* what a method of DownloadStats leaves alone
besides_stats == <<inputs, next_date, permits, tasks, returned, task,
                   files, exif_time, file_time>>

Recorded == stats.succeeded + stats.failed + stats.skipped

record_success_call ==
    /\ entry = "stats"
    /\ Recorded < MaxRecords
    /\ stats' = record_success(stats)
    /\ UNCHANGED <<besides_stats, call>>

record_failure_call ==
    /\ entry = "stats"
    /\ Recorded < MaxRecords
    /\ \E d \in Dates : stats' = record_failure(stats, format_date(d))
    /\ UNCHANGED <<besides_stats, call>>

record_skip_call ==
    /\ entry = "stats"
    /\ Recorded < MaxRecords
    /\ stats' = record_skip(stats)
    /\ UNCHANGED <<besides_stats, call>>

success_rate_call ==
    /\ entry = "stats"
    /\ call' = [fn |-> "success_rate", arg |-> stats, done |-> TRUE,
                ret |-> success_rate(stats)]
    /\ UNCHANGED engine

\* config.start_date values: the day before the first date, and the dates
StartDates == { [year |-> 2023, month |-> 12, day |-> 30] } \cup Dates

\* the end of run_command, after download_batch has returned stats: the
\* start_date of the configuration file is replaced by
\* stats.latest_success_date() if there is one, no --start-date was given
\* and it is later than config.start_date.  Without an override the dates
\* of the batch are date_range(config.start_date, end).
run_command_update(start_date, start_date_override) ==
    /\ entry = "download_batch"
    /\ returned
    /\ call = NoCall
    /\ ~start_date_override =>
            \A i \in 1..Len(dates) : date_le(start_date, dates[i])
    /\ LET latest_date == latest_success_date(stats)
           update == /\ latest_date # NoDate
                     /\ ~start_date_override
                     /\ ~date_le(latest_date, start_date)
       IN  call' = [fn |-> "run_command",
                    arg |-> [start_date |-> start_date,
                             start_date_override |-> start_date_override],
                    done |-> TRUE,
                    ret |-> IF update THEN latest_date ELSE start_date]
    /\ UNCHANGED engine

\* ------------------------------------------------------------------ Next
Tasks == 1..Len(dates)

\* The same call is made a second time once the first has returned: the
\* Downloader and the arguments are the same, the files are as the first
\* call left them, everything local to the call starts afresh.
Rerun ==
    /\ ~first_run.ran
    /\ IF entry = "download_batch" THEN returned ELSE task[1].pc = "done"
    /\ first_run' = [ran |-> TRUE,
                     results |-> [i \in Tasks |-> task[i].result.kind],
                     files |-> files]
    /\ next_date' = 0
    /\ permits' = max_concurrent
    /\ tasks' = {}
    /\ stats' = new_stats(IF entry = "download_batch" THEN Len(dates) ELSE 0)
    /\ returned' = FALSE
    /\ task' = [i \in Tasks |->
                    IF entry = "download_batch" THEN NewTask
                    ELSE [NewTask EXCEPT !.pc = "check"]]
    /\ UNCHANGED <<entry, dates, max_concurrent, overwrite, download_only,
                   retry_config, process, call, files, exif_time, file_time>>

Next ==
    \/ Admit
    \/ \E i \in Tasks : batch_check(i)
    \/ \E i \in Tasks, r \in CoreResponses : batch_fetch(i, r)
    \/ \E i \in Tasks, w \in CoreWriteResults : batch_write(i, w)
    \/ \E i \in Tasks, e \in CoreRepairResults, t \in CoreRepairResults :
            batch_repair_existing(i, e, t)
    \/ \E i \in Tasks, e \in CoreRepairResults, t \in CoreRepairResults :
            batch_repair_written(i, e, t)
    \/ \E i \in Tasks : Collect(i)
    \/ Return

NextTask ==
    \/ Admit
    \/ \E i \in Tasks : batch_check(i)
    \/ \E i \in Tasks, r \in AllResponses : batch_fetch(i, r)
    \/ \E i \in Tasks, w \in WriteResults : batch_write(i, w)
    \/ \E i \in Tasks, e \in RepairResults, t \in RepairResults : batch_repair_existing(i, e, t)
    \/ \E i \in Tasks, e \in RepairResults, t \in RepairResults : batch_repair_written(i, e, t)
    \/ \E i \in Tasks : Collect(i)
    \/ Return
    \/ \E ok \in BOOLEAN : download_check(ok)
    \/ \E r \in AllResponses : execute_download_request(r)
    \/ \E w \in WriteResults : execute_download_write(w)
    \/ \E e \in RepairResults, t \in RepairResults : download_repair_existing(e, t)
    \/ \E e \in RepairResults, t \in RepairResults : execute_download_repair(e, t)

\* either entry point, called for the same date a second time
NextRerun ==
    \/ Next
    \/ \E ok \in BOOLEAN : download_check(ok)
    \/ \E r \in CoreResponses : execute_download_request(r)
    \/ \E w \in CoreWriteResults : execute_download_write(w)
    \/ \E e \in CoreRepairResults, t \in CoreRepairResults :
            download_repair_existing(e, t)
    \/ \E e \in CoreRepairResults, t \in CoreRepairResults :
            execute_download_repair(e, t)
    \/ Rerun

Spec == Init /\ [][Next]_vars

SpecTask == InitTask /\ [][NextTask]_vars

SpecProcess == InitProcess /\ [][Next]_vars

SpecRerun == InitRerun /\ [][NextRerun]_vars

\* The batch on the tokio runtime, every request ending in a response or
\* an error: the coordinator and every spawned task are polled whenever
\* they can make progress, so the batch does not stop while a step is
\* possible.
SpecLive == InitLive /\ [][Next]_vars /\ WF_vars(Next)

\* the run command: the batch, then the update of start_date
NextRun ==
    \/ Next
    \/ \E sd \in StartDates, ov \in BOOLEAN : run_command_update(sd, ov)

SpecRun == Init /\ [][NextRun]_vars

NextDelay == calculate_delay_call

NextClassify ==
    \/ from_error_message_call
    \/ is_retryable_call
    \/ suggested_delay_ms_call

SpecClassify == InitClassify /\ [][NextClassify]_vars

NextStats ==
    \/ record_success_call
    \/ record_failure_call
    \/ record_skip_call
    \/ success_rate_call

SpecStats == InitStats /\ [][NextStats]_vars

SpecDelay == InitDelay /\ [][NextDelay]_vars

\* ================================================================ claims
InBatch == entry = "download_batch"

Holders == { i \in Tasks : task[i].permit = "held" }

WithOutcome(kind) == { i \in Tasks : task[i].result.kind = kind }

ConsumedWith(kind) ==
    { i \in Tasks : task[i].pc = "consumed" /\ task[i].result.kind = kind }

WorkPcs == {"check", "fetch", "write", "repair_existing", "repair_written"}

InSeq(x, seq) == \E k \in 1..Len(seq) : seq[k] = x

\* C1: with max_concurrent = N >= 1, the number of tasks that hold an
\* admission permit (acquired, not yet released) never exceeds N, also when
\* there are more dates than N.
C1_ConcurrencyBound ==
    max_concurrent >= 1 => Cardinality(Holders) <= max_concurrent

\* N tasks hold the N permits while a further date waits for admission
C1_Witness ==
    /\ max_concurrent >= 1
    /\ Len(dates) > max_concurrent
    /\ Cardinality(Holders) = max_concurrent
    /\ next_date < Len(dates)

\* C2: a task's permit is released only once the task has done all of its
\* work: a task whose permit is released is finished, and every step in
\* which a task checks, fetches, writes or repairs starts with the permit
\* held, on every path.
C2_PermitReleasedAfterWork ==
    /\ [](\A i \in Tasks :
            task[i].permit = "released" => task[i].pc \in {"done", "consumed"})
    /\ [][\A i \in Tasks :
            (InBatch /\ task[i].pc \in WorkPcs /\ task'[i] # task[i])
                => task[i].permit = "held"]_vars

\* one task released its permit after write and repairs, another after a
\* failed fetch
C2_Witness ==
    \E i, j \in Tasks :
        /\ task[i].permit = "released" /\ task[i].pc = "done"
        /\ task[i].result.kind = "downloaded"
        /\ task[i].writes = 1 /\ task[i].exif_calls = 1 /\ task[i].time_calls = 1
        /\ task[j].permit = "released" /\ task[j].pc = "done"
        /\ task[j].result.kind = "failed" /\ task[j].resp # BodyOk

\* C3: when download_batch returns, succeeded + failed + skipped == total,
\* total being the number of input dates (no task panics and no permit
\* acquisition fails in this model).
C3_CountsAddUp ==
    returned =>
        /\ stats.total = Len(dates)
        /\ stats.succeeded + stats.failed + stats.skipped = stats.total

\* the batch returned with two dates of different outcomes
C3_Witness ==
    /\ returned
    /\ Len(dates) = 2
    /\ task[1].result.kind # task[2].result.kind

\* C4: a task that finds its target file with overwrite false sends no
\* request, writes nothing and ends already-existed, through download and
\* through download_batch; the aggregator counts an already-existed outcome
\* as skipped, and neither as succeeded nor as failed.
C4_ExistingFileSkipsFetch ==
    /\ \A i \in Tasks :
        (task[i].found = "exists" /\ ~overwrite) =>
            /\ task[i].resp = NoResponse
            /\ task[i].writes = 0
            /\ task[i].pc \in {"repair_existing", "done"}
            /\ task[i].pc = "done" => task[i].result.kind = "existed"
    /\ InBatch =>
            /\ stats.skipped = Cardinality(ConsumedWith("existed"))
            /\ stats.succeeded = Cardinality(ConsumedWith("downloaded"))
            /\ stats.failed = Cardinality(ConsumedWith("failed"))

\* Downloader::download returned already-existed for a file it found
C4_Witness ==
    /\ entry = "download"
    /\ ~overwrite
    /\ task[1].found = "exists"
    /\ task[1].pc = "done"
    /\ task[1].result.kind = "existed"

\* C5: a task whose request returns HTTP 404 sends no further request and
\* ends failed with that status, whatever max_retries is and whichever
\* attempt received the 404, through download and through download_batch.
C5_NotFoundIsTerminal ==
    \A i \in Tasks :
        task[i].resp = Status(404) =>
            /\ task[i].pc = "done"
            /\ task[i].result.kind = "failed"
            /\ task[i].result.error = HttpError(404)

\* Downloader::download got the 404 on a retry, with retries left
C5_Witness ==
    /\ entry = "download"
    /\ task[1].resp = Status(404)
    /\ task[1].attempt = 1
    /\ retry_config.max_retries = DEFAULT_MAX_RETRIES

\* C6: a task's failure does not abort the batch.  The step in which a task
\* fails changes nothing of the other tasks, of the admission loop, of the
\* statistics or of the files of other dates; admission goes on whenever a
\* date and a permit are left; and when the batch returns every date was
\* admitted and consumed, each failed date is in failed_dates and failed
\* counts the failed tasks.
C6_FailureDoesNotAbortBatch ==
    /\ [](returned =>
            /\ next_date = Len(dates)
            /\ \A i \in Tasks :
                /\ task[i].pc = "consumed"
                /\ task[i].result.kind = "failed"
                       => InSeq(format_date(dates[i]), stats.failed_dates)
            /\ stats.failed = Cardinality(WithOutcome("failed")))
    /\ []((~returned /\ next_date < Len(dates) /\ permits > 0) => ENABLED Admit)
    /\ [][\A j \in Tasks :
            (task[j].result.kind = "none" /\ task'[j].result.kind = "failed") =>
                /\ \A i \in Tasks \ {j} : task'[i] = task[i]
                /\ next_date' = next_date
                /\ tasks' = tasks
                /\ stats' = stats
                /\ returned' = returned
                /\ \A p \in Paths \ {build_path(dates[j])} :
                    /\ files'[p] = files[p]
                    /\ exif_time'[p] = exif_time[p]
                    /\ file_time'[p] = file_time[p]]_vars

\* the batch returned: the first date got a 404, the second was downloaded
C6_Witness ==
    /\ returned
    /\ Len(dates) = 2
    /\ task[1].result = ResultErr(dates[1], HttpError(404))
    /\ task[2].result.kind = "downloaded"
    /\ stats.failed_dates = <<format_date(dates[1])>>

\* C7: download_batch never returns while an admitted task is running: when
\* it has returned, every admitted task is finished, has given its permit
\* back and had its output consumed by the aggregation loop.
C7_ReturnsAfterAllTasks ==
    returned =>
        /\ tasks = {}
        /\ \A i \in 1..next_date :
            task[i].pc = "consumed" /\ task[i].permit = "released"

\* the batch returned after two tasks that ran at the same time
C7_Witness ==
    /\ returned
    /\ next_date = 2
    /\ max_concurrent = 2
    /\ stats.succeeded = 2

\* the Error Classifier's verdict on the failure of a request: the
\* classification download_with_retry applies to the same failure
ClassifiedRetryable(r) ==
    LET re == classify_error(execute_download_error(r))
    IN  re # NoCategory /\ is_retryable(re)

\* C8 (as claimed): in download_batch a transport error or non-success
\* status is followed by another attempt only if it classifies as
\* retryable; one that does not (an unmatched message, a 403) ends the task
\* as failed at once, and a retryable one (429, 5xx) ends it only on the
\* last attempt.
C8_RetryOnlyIfRetryable ==
    \A i \in Tasks :
        (InBatch /\ task[i].resp.kind \in {"send_err", "status"}) =>
            /\ task[i].pc = "fetch" => ClassifiedRetryable(task[i].resp)
            /\ ~ClassifiedRetryable(task[i].resp) =>
                    task[i].pc = "done" /\ task[i].result.kind = "failed"
            /\ (ClassifiedRetryable(task[i].resp) /\ task[i].pc = "done")
                    => task[i].attempt = MAX_RETRIES

\* C9 (as claimed): with the configured max_retries = 0 (retry disabled) no
\* task of download_batch enters a second iteration of its retry loop, so
\* it sends at most one request.
C9_NoRetryWhenDisabled ==
    (InBatch /\ retry_config.max_retries = 0 /\ ~retry_config.enabled) =>
        \A i \in Tasks : task[i].attempt = 0

\* C10: download_batch never writes an empty success body: an empty body is
\* followed by another attempt while attempts remain, and on the last
\* attempt it ends the task as failed with the empty-response error.
C10_EmptyBodyNeverWritten ==
    InBatch =>
        /\ \A p \in Paths : files[p] # "empty"
        /\ \A i \in Tasks :
            /\ task[i].bytes # "empty"
            /\ task[i].resp = BodyEmpty =>
                \/ /\ task[i].pc = "fetch"
                   /\ task[i].attempt \in 1..MAX_RETRIES
                \/ /\ task[i].pc = "done"
                   /\ task[i].attempt = MAX_RETRIES
                   /\ task[i].writes = 0
                   /\ task[i].result =
                         ResultErr(dates[i], NetworkError(MsgEmptyResponse))

\* a task of the batch failed because its last attempt's body was empty too
C10_Witness ==
    /\ InBatch
    /\ \E i \in Tasks :
        /\ task[i].resp = BodyEmpty
        /\ task[i].pc = "done"
        /\ task[i].attempt = MAX_RETRIES
        /\ task[i].result.kind = "failed"

\* number of entries of seq equal to x
Occurrences(x, seq) == Cardinality({ k \in 1..Len(seq) : seq[k] = x })

\* C11: when download_batch returns, failed_dates holds one entry per failed
\* task and nothing else: its length is failed, which is the number of
\* failed tasks, and each formatted date occurs in it as many times as
\* tasks of that date failed, so a date none of whose tasks failed (skipped
\* or downloaded) is not in it.
C11_FailedDatesExact ==
    returned =>
        /\ Len(stats.failed_dates) = stats.failed
        /\ stats.failed = Cardinality(WithOutcome("failed"))
        /\ \A d \in Dates :
            Occurrences(format_date(d), stats.failed_dates)
                = Cardinality({ i \in WithOutcome("failed") : dates[i] = d })

\* the batch returned: one date was skipped, the other date failed
C11_Witness ==
    /\ returned
    /\ Len(dates) = 2
    /\ dates[1] # dates[2]
    /\ task[1].result.kind = "existed"
    /\ task[2].result.kind = "failed"
    /\ stats.failed_dates = <<format_date(dates[2])>>

\* the dates of the tasks that ended downloaded
DownloadedDates == { dates[i] : i \in WithOutcome("downloaded") }

\* C12 (as claimed): when download_batch returns, succeeded_dates holds one
\* entry per downloaded task and nothing else (its length is succeeded), so
\* latest_success_date() is the greatest downloaded date, and None only
\* when no date was downloaded.
C12_SucceededDatesExact ==
    returned =>
        /\ Len(stats.succeeded_dates) = stats.succeeded
        /\ \A d \in Dates :
            Occurrences(format_date(d), stats.succeeded_dates)
                = Cardinality({ i \in WithOutcome("downloaded") : dates[i] = d })
        /\ latest_success_date(stats) =
                IF DownloadedDates = {} THEN NoDate ELSE max_date(DownloadedDates)

\* C13: the same call made twice in sequence with overwrite = false: for a
\* date the first call downloaded, the second call sends no request, writes
\* nothing, leaves the downloaded content in the file and ends
\* already-existed.
C13_SecondRunIdempotent ==
    \A i \in Tasks :
        (first_run.ran /\ ~overwrite /\ first_run.results[i] = "downloaded") =>
            /\ first_run.files[build_path(dates[i])] # "none"
            /\ files[build_path(dates[i])] = first_run.files[build_path(dates[i])]
            /\ task[i].resp = NoResponse
            /\ task[i].writes = 0
            /\ task[i].pc \notin {"fetch", "write", "repair_written"}
            /\ task[i].pc \in {"done", "consumed"}
                    => task[i].result.kind = "existed"

\* the second download_batch returned: the date the first one downloaded
\* was skipped
C13_Witness ==
    /\ InBatch
    /\ first_run.ran
    /\ ~overwrite
    /\ first_run.results = <<"downloaded">>
    /\ returned
    /\ task[1].result.kind = "existed"
    /\ stats.skipped = 1

RepairPcs == {"repair_existing", "repair_written"}

\* C14: with download_only = false a task that ends downloaded or
\* already-existed has invoked both repairs, and every repair step of a
\* task sets the date tag and the timestamp of that task's own path to
\* midnight of that task's own date, under every interleaving: no step
\* changes the metadata of a path other than through a task of that path,
\* with that task's date.  With download_only = true no repair is invoked
\* and no file's metadata changes.
C14_RepairsOwnPathOwnDate ==
    /\ [](\A i \in Tasks :
            (task[i].pc = "done" /\ task[i].result.kind \in {"downloaded", "existed"}) =>
                IF download_only
                THEN task[i].exif_calls = 0 /\ task[i].time_calls = 0
                ELSE task[i].exif_calls = 1 /\ task[i].time_calls = 1)
    /\ [](download_only =>
            \A p \in Paths : exif_time[p] = StaleTime /\ file_time[p] = StaleTime)
    /\ [](\A d \in Dates :
            /\ exif_time[build_path(d)] \in {StaleTime, Midnight(d)}
            /\ file_time[build_path(d)] \in {StaleTime, Midnight(d)})
    /\ [][/\ \A i \in Tasks :
                (task[i].pc \in RepairPcs /\ task'[i].pc = "done") =>
                    /\ exif_time'[build_path(dates[i])] = Midnight(dates[i])
                    /\ file_time'[build_path(dates[i])] = Midnight(dates[i])
          /\ \A p \in Paths :
                (exif_time'[p] # exif_time[p] \/ file_time'[p] # file_time[p]) =>
                    \E i \in Tasks :
                        /\ build_path(dates[i]) = p
                        /\ task[i].pc \in RepairPcs
                        /\ task'[i].pc = "done"]_vars

\* two tasks of different dates ran at the same time and both repaired
\* their file: each file carries its own date
C14_Witness ==
    /\ Len(dates) = 2
    /\ dates[1] # dates[2]
    /\ max_concurrent = 2
    /\ ~download_only
    /\ task[1].pc = "done" /\ task[1].exif_calls = 1 /\ task[1].time_calls = 1
    /\ task[2].pc = "done" /\ task[2].exif_calls = 1 /\ task[2].time_calls = 1
    /\ \A i \in Tasks :
        /\ exif_time[build_path(dates[i])] = Midnight(dates[i])
        /\ file_time[build_path(dates[i])] = Midnight(dates[i])

\* C15: a repair step ends the task with the outcome it had before the
\* repairs (downloaded after a write, already-existed after a skip) and
\* calls both repairs, whether they succeed or fail; a finished task that
\* wrote its bytes fails only on the write itself, one that skipped never
\* fails; and the aggregator counts these outcomes as succeeded / skipped.
C15_RepairFailureKeepsOutcome ==
    /\ [][\A i \in Tasks :
            (task[i].pc \in RepairPcs /\ task'[i] # task[i]) =>
                /\ task'[i].pc = "done"
                /\ task'[i].result.kind =
                        IF task[i].pc = "repair_written" THEN "downloaded"
                        ELSE "existed"
                /\ task'[i].exif_calls = task[i].exif_calls + 1
                /\ task'[i].time_calls = task[i].time_calls + 1]_vars
    /\ [](\A i \in Tasks :
            (task[i].pc = "done" /\ task[i].exif_calls + task[i].time_calls > 0) =>
                /\ task[i].result.kind \in {"downloaded", "existed"}
                /\ task[i].exif_calls = 1
                /\ task[i].time_calls = 1)
    /\ [](InBatch =>
            /\ stats.succeeded = Cardinality(ConsumedWith("downloaded"))
            /\ stats.skipped = Cardinality(ConsumedWith("existed"))
            /\ stats.failed = Cardinality(ConsumedWith("failed")))

\* the batch returned one success: the date tag of the written file was not
\* set (set_exif_datetime failed) and its timestamp was
C15_Witness ==
    /\ InBatch
    /\ returned
    /\ ~download_only
    /\ Len(dates) = 1
    /\ task[1].result.kind = "downloaded"
    /\ stats.succeeded = 1
    /\ exif_time[build_path(dates[1])] = StaleTime
    /\ file_time[build_path(dates[1])] = Midnight(dates[1])

\* C16: download_batch admits tasks in input order: the task of dates[i]
\* gets its permit and starts only when the tasks of all earlier dates have
\* been admitted and none of a later date has; nothing orders completion (a
\* later date may finish first, see the witness).
C16_AdmissionInInputOrder ==
    /\ [](\A i \in Tasks :
            task[i].pc # "pending" =>
                /\ i <= next_date
                /\ \A j \in 1..(i - 1) : task[j].pc # "pending")
    /\ [][\A i \in Tasks :
            (task[i].pc = "pending" /\ task'[i].pc # "pending") =>
                /\ task'[i].pc = "check"
                /\ task'[i].permit = "held"
                /\ \A j \in 1..(i - 1) : task[j].pc # "pending"
                /\ \A j \in (i + 1)..Len(dates) : task'[j].pc = "pending"]_vars

\* the task of the second date has finished while the task of the first
\* date, admitted before it, is still fetching
C16_Witness ==
    /\ Len(dates) = 2
    /\ task[2].pc = "done"
    /\ task[2].result.kind = "downloaded"
    /\ task[1].pc = "fetch"

\* x doubled n times
RECURSIVE Doubled(_, _)
Doubled(x, n) == IF n = 0 THEN x ELSE Doubled(x + x, n - 1)

\* C17: calculate_delay(attempt, base_delay, max_delay) is base_delay
\* doubled min(attempt, 10) times, capped at max_delay: it never exceeds
\* max_delay, and with base_delay = 1000 and max_delay = 30000 the attempts
\* 0, 1, 2, 3 give 1000, 2000, 4000, 8000.
C17_BackoffDelay ==
    (entry = "calculate_delay" /\ task[1].pc = "done") =>
        LET a == task[1].attempt
            base == retry_config.base_delay_ms
            max == retry_config.max_delay_ms
            d == task[1].delay
            raw == Doubled(base, IF a < 10 THEN a ELSE 10)
        IN  /\ d <= max
            /\ raw <= max => d = raw
            /\ raw > max => d = max
            /\ (base = 1000 /\ max = 30000 /\ a = 0) => d = 1000
            /\ (base = 1000 /\ max = 30000 /\ a = 1) => d = 2000
            /\ (base = 1000 /\ max = 30000 /\ a = 2) => d = 4000
            /\ (base = 1000 /\ max = 30000 /\ a = 3) => d = 8000

\* attempt 5 with base 1000: 32000 is capped at max_delay = 30000
C17_Witness ==
    /\ entry = "calculate_delay"
    /\ task[1].pc = "done"
    /\ task[1].attempt = 5
    /\ retry_config.base_delay_ms = 1000
    /\ retry_config.max_delay_ms = 30000
    /\ task[1].delay = 30000

\* tasks that were admitted and have not finished
InFlight == { i \in Tasks : task[i].pc \in WorkPcs }

\* seq lists formatted dates of failed tasks in the order of the input
InInputOrder(seq) ==
    \E f \in [1..Len(seq) -> Tasks] :
        /\ \A k \in 1..Len(seq) :
            /\ task[f[k]].result.kind = "failed"
            /\ seq[k] = format_date(dates[f[k]])
        /\ \A k \in 1..(Len(seq) - 1) : f[k] < f[k + 1]

\* at most one task in flight, and a task starts only when every task
\* before it in the input has finished
OneAtATimeInOrder ==
    /\ Cardinality(InFlight) <= 1
    /\ Cardinality(Holders) <= 1
    /\ \A i \in Tasks :
        task[i].pc # "pending" =>
            \A j \in 1..(i - 1) : task[j].pc \in {"done", "consumed"}

\* C19 (as claimed): under process_dates at most one task is in flight,
\* tasks run and complete strictly in input order, and failed_dates lists
\* the failed dates in input order.
C19_ProcessInInputOrder ==
    process.called =>
        /\ OneAtATimeInOrder
        /\ InInputOrder(stats.failed_dates)

\* C19 (amended): under process_dates at most one task is in flight and
\* tasks run and complete strictly in input order; when it returns,
\* failed_dates holds one entry per failed task, in the order in which the
\* aggregation loop took the results (not bound to the input order).
C19_ProcessSequential ==
    process.called =>
        /\ OneAtATimeInOrder
        /\ returned =>
            \A d \in Dates :
                Occurrences(format_date(d), stats.failed_dates)
                    = Cardinality({ i \in WithOutcome("failed") : dates[i] = d })

\* process_dates: the second date is being fetched, the first has failed
\* and is not yet aggregated
C19_Witness ==
    /\ process.called
    /\ Len(dates) = 2
    /\ task[1].pc = "done"
    /\ task[1].result.kind = "failed"
    /\ task[2].pc = "fetch"

C21_MetadataOnlyDoesNotDownload ==
    (process.called /\ process.metadata_only) =>
        \A i \in Tasks :
            /\ task[i].resp = NoResponse
            /\ task[i].writes = 0
            /\ task[i].pc \notin {"fetch", "write"}
            /\ (task[i].pc = "done" /\ task[i].found = "exists") =>
                    /\ exif_time[build_path(dates[i])] = Midnight(dates[i])
                    /\ file_time[build_path(dates[i])] = Midnight(dates[i])

\* the classifier's message rules in their order: category, patterns
MessageRules ==
    << <<"ConnectionTimeout", {"connection timed out"}>>,
       <<"ReadTimeout", {"timed out"}>>,
       <<"DnsFailed", {"dns", "name or service not known",
                       "no address associated with name"}>>,
       <<"ConnectionRefused", {"connection refused"}>>,
       <<"ConnectionFailed", {"network is unreachable", "connection reset",
                              "broken pipe", "connection closed"}>>,
       <<"TlsFailed", {"tls", "ssl", "certificate"}>>,
       <<"DecodingFailed", {"decode", "utf", "invalid utf", "stream"}>> >>

\* the category of the first rule one of whose patterns is in the message
FirstMatch(low) ==
    LET hits == { k \in 1..Len(MessageRules) : MessageRules[k][2] \cap low # {} }
    IN  IF hits = {} THEN "Unknown"
        ELSE MessageRules[CHOOSE k \in hits : \A h \in hits : k <= h][1]

\* C22: from_error_message returns one category, first match wins: 429
\* gives rate-limited and a 5xx server-error (with the status) whatever
\* the message; otherwise the lower-cased message is tested against the
\* rules in their order, and unknown is left when none matches.
C22_FirstMatchWins ==
    (call.fn = "from_error_message" /\ call.done) =>
        LET st == call.arg.status
            low == to_lowercase(call.arg.msg)
        IN  /\ call.ret.cat =
                    IF st = 429 THEN "TooManyRequests"
                    ELSE IF st >= 500 /\ st <= 599 THEN "ServerError"
                    ELSE FirstMatch(low)
            /\ call.ret.cat = "ServerError" => call.ret.status = st
            /\ (st \in {0, 403} /\ {"connection timed out", "dns"} \subseteq low)
                    => call.ret.cat = "ConnectionTimeout"
            /\ (st \in {0, 403} /\ {"timed out", "tls"} \subseteq low
                    /\ "connection timed out" \notin low)
                    => call.ret.cat = "ReadTimeout"
            /\ (st = 503 /\ "connection refused" \in low)
                    => call.ret.cat = "ServerError"

\* "TIMED OUT ... tls" with no status classified as read-timeout
C22_Witness ==
    /\ call.fn = "from_error_message"
    /\ call.done
    /\ call.arg.status = 0
    /\ call.arg.msg = {"TIMED OUT", "tls"}
    /\ call.ret.cat = "ReadTimeout"

\* C23: is_retryable is true for every category except unknown, and
\* suggested_delay_ms is 5000 for rate-limited, 2000 for server-error,
\* dns-failure, connection-refused and connection-failed, 3000 for
\* tls-failure, 1000 for connection-timeout, read-timeout, write-timeout
\* and decode-failure, 0 for unknown.
C23_RetryableAndSuggestedDelay ==
    /\ (call.fn = "is_retryable" /\ call.done) =>
            (call.ret <=> call.arg.cat # "Unknown")
    /\ (call.fn = "suggested_delay_ms" /\ call.done) =>
            /\ call.arg.cat = "TooManyRequests" => call.ret = 5000
            /\ call.arg.cat \in {"ServerError", "DnsFailed", "ConnectionRefused",
                                 "ConnectionFailed"} => call.ret = 2000
            /\ call.arg.cat = "TlsFailed" => call.ret = 3000
            /\ call.arg.cat \in {"ConnectionTimeout", "ReadTimeout",
                                 "WriteTimeout", "DecodingFailed"} => call.ret = 1000
            /\ call.arg.cat = "Unknown" => call.ret = 0

\* is_retryable(DecodingFailed(..)) returned true
C23_Witness ==
    /\ call.fn = "is_retryable"
    /\ call.done
    /\ call.arg.cat = "DecodingFailed"
    /\ call.ret = TRUE

\* C24: success_rate() is 0 when total is 0 and otherwise
\* succeeded / total * 100 (2 successes with total 5 give 40); the
\* skipped and the failed counts do not enter it.
C24_SuccessRate ==
    (call.fn = "success_rate" /\ call.done) =>
        LET s == call.arg
        IN  /\ s.total = 0 => call.ret = [num |-> 0, den |-> 1]
            /\ s.total # 0 =>
                    /\ call.ret.den > 0
                    /\ call.ret.num * s.total = s.succeeded * 100 * call.ret.den
            /\ (s.succeeded = 2 /\ s.total = 5) => call.ret = [num |-> 40, den |-> 1]

\* the unit test of lib.rs: total 5, two successes, a failure, a skip: 40
C24_Witness ==
    /\ call.fn = "success_rate"
    /\ call.done
    /\ call.arg.total = 5
    /\ call.arg.succeeded = 2
    /\ call.arg.failed = 1
    /\ call.arg.skipped = 1
    /\ call.ret = [num |-> 40, den |-> 1]

\* C25: in Downloader::download the attempt with index k that fails is
\* followed by another attempt (index k + 1) if and only if retry is
\* enabled, the error classifies as retryable and k < max_retries, and
\* otherwise ends the task failed with that error; a failed write ends it
\* at once; no request follows once the task has left its fetch.  Hence the
\* attempt index never exceeds max_retries (at most max_retries + 1
\* requests) and stays 0 when retry is disabled (one request).
C25_DownloadRetriesIffRetryable ==
    /\ [](entry = "download" =>
            /\ task[1].attempt <= retry_config.max_retries
            /\ ~retry_config.enabled => task[1].attempt = 0)
    /\ [][(entry = "download" /\ task[1].pc = "fetch" /\ task'[1] # task[1]) =>
            LET k == task[1].attempt
                r == task'[1].resp
                again == /\ retry_config.enabled
                         /\ ClassifiedRetryable(r)
                         /\ k < retry_config.max_retries
            IN  execute_download_error(r) # NoError =>
                    IF again
                    THEN task'[1].pc = "fetch" /\ task'[1].attempt = k + 1
                    ELSE /\ task'[1].pc = "done"
                         /\ task'[1].attempt = k
                         /\ task'[1].result =
                                ResultErr(dates[1], execute_download_error(r))]_vars
    /\ [][(entry = "download" /\ task[1].pc = "write" /\ task'[1] # task[1]
                /\ task'[1].pc # "repair_written"
                /\ task'[1].result.kind # "downloaded") =>
            /\ task'[1].pc = "done"
            /\ task'[1].attempt = task[1].attempt
            /\ task'[1].result = ResultErr(dates[1], FileError)]_vars
    /\ [][(entry = "download" /\ task[1].pc \in {"write", "repair_written", "done"})
            => task'[1].pc # "fetch"]_vars

\* Downloader::download with max_retries = 3: the fourth request got a 500
\* as well, and the task failed with it
C25_Witness ==
    /\ entry = "download"
    /\ retry_config.max_retries = 3
    /\ task[1].pc = "done"
    /\ task[1].attempt = 3
    /\ task[1].resp = Status(500)
    /\ task[1].result = ResultErr(dates[1], HttpError(500))

\* C26 (as claimed): the delay slept before the retry that follows the
\* failed attempt k is calculate_delay(k, base_delay, max_delay) of the
\* run's retry policy (1000, 2000, 4000 ms under the default policy for
\* k = 0, 1, 2), in download_batch as in Downloader::download.
C26_BatchBackoffAsDownload ==
    \A i \in Tasks :
        (task[i].pc = "fetch" /\ task[i].attempt >= 1) =>
            task[i].delay = calculate_delay(task[i].attempt - 1,
                                            retry_config.base_delay_ms,
                                            retry_config.max_delay_ms)

\* C27 (as claimed): in download_batch a body-read failure is followed by
\* another attempt, while attempts remain, exactly when the Error
\* Classifier classifies its message as retryable: a task fetches again
\* after one only if the message is retryable, and a task that ended on a
\* retryable one had no attempt left.
C27_BodyErrorRetriedIffClassified ==
    \A i \in Tasks :
        (InBatch /\ task[i].resp.kind = "body_err") =>
            LET retryable == is_retryable(from_error_message(task[i].resp.msg, 0))
            IN  /\ task[i].pc = "fetch" => retryable
                /\ (task[i].pc = "done" /\ retryable) => task[i].attempt = MAX_RETRIES
                /\ (task[i].pc = "done" /\ ~retryable) => task[i].result.kind = "failed"

\* C28 (as claimed): in Downloader::download a success-status response
\* with an empty body is a retryable failure: it is never handed to the
\* write, no zero-length file is written, and the task ends downloaded only
\* if an attempt returned a non-empty body.
C28_DownloadRejectsEmptyBody ==
    entry = "download" =>
        /\ task[1].bytes # "empty"
        /\ \A p \in Paths : files[p] # "empty"
        /\ (task[1].pc = "done" /\ task[1].result.kind = "downloaded")
                => task[1].resp = BodyOk

\* the error a failed request or body read shows to the task
ObservedError(r) ==
    CASE r.kind = "send_err" -> NetworkError(r.msg)
      [] r.kind = "body_err" -> NetworkError(r.msg)
      [] r.kind = "body_empty" -> NetworkError(MsgEmptyResponse)
      [] OTHER -> HttpError(r.status)

\* the attempt index of the last attempt a task may make
LastAttempt == IF InBatch THEN MAX_RETRIES ELSE retry_config.max_retries

\* C29: a task that makes its last attempt and fails in it reports the
\* error of that attempt, whatever the earlier attempts ran into, through
\* Downloader::download and through download_batch: the step in which the
\* fetch of the last attempt fails ends the task with the error of the
\* response of that step, and a task found failed after its last attempt
\* carries the error of the last response it received.
C29_LastErrorReported ==
    /\ [][\A i \in Tasks :
            (/\ task[i].pc = "fetch"
             /\ task[i].attempt = LastAttempt
             /\ task'[i].pc = "done"
             /\ task'[i].result.kind = "failed") =>
                task'[i].result = ResultErr(dates[i], ObservedError(task'[i].resp))]_vars
    /\ [](\A i \in Tasks :
            (/\ task[i].pc = "done"
             /\ task[i].result.kind = "failed"
             /\ task[i].attempt = LastAttempt
             /\ task[i].writes = 0
             /\ task[i].resp # NoResponse) =>
                task[i].result.error = ObservedError(task[i].resp))

\* a task of download_batch whose fourth request was refused
C29_Witness ==
    /\ InBatch
    /\ \E i \in Tasks :
        /\ task[i].pc = "done"
        /\ task[i].attempt = MAX_RETRIES
        /\ task[i].resp = SendErr(MsgRefused)
        /\ task[i].result = ResultErr(dates[i], NetworkError(MsgRefused))

\* C30: a write that fails (the file is not left with the fetched bytes)
\* ends the task failed with the file error in that very step, with no
\* further request (response and attempt index as they were, the task
\* finished for good) and no repair call, through download_batch and
\* through Downloader::download; a finished task always has an outcome, and
\* when download_batch returns every date has one, each failed date being in
\* failed_dates.
C30_WriteFailureIsTerminal ==
    /\ [][\A i \in Tasks :
            (/\ task[i].pc = "write"
             /\ task'[i] # task[i]
             /\ files'[build_path(dates[i])] \notin {"new", "empty"}) =>
                /\ task'[i].pc = "done"
                /\ task'[i].result = ResultErr(dates[i], FileError)
                /\ task'[i].resp = task[i].resp
                /\ task'[i].attempt = task[i].attempt
                /\ task'[i].exif_calls = 0
                /\ task'[i].time_calls = 0
                /\ exif_time' = exif_time
                /\ file_time' = file_time]_vars
    /\ [][\A i \in Tasks :
            task[i].pc = "done" =>
                \/ task'[i] = task[i]
                \/ task'[i] = Consumed(task[i])]_vars
    /\ [](\A i \in Tasks :
            task[i].pc \in {"done", "consumed"} =>
                task[i].result.kind \in {"downloaded", "existed", "failed"})
    /\ [](returned =>
            \A i \in Tasks :
                /\ task[i].pc = "consumed"
                /\ task[i].result.kind = "failed"
                        => InSeq(format_date(dates[i]), stats.failed_dates))

\* download_batch returned: the write of the only date's bytes failed after
\* a retried fetch, the date is in failed_dates and no repair was called
C30_Witness ==
    /\ InBatch
    /\ returned
    /\ Len(dates) = 1
    /\ task[1].result = ResultErr(dates[1], FileError)
    /\ files[build_path(dates[1])] = "partial"
    /\ stats.failed_dates = <<format_date(dates[1])>>
    /\ exif_time[build_path(dates[1])] = StaleTime

\* the positions a task of download_batch may move to from position pc
StepsFrom(pc) ==
    CASE pc = "pending" -> {"check"}
      [] pc = "check" -> {"repair_existing", "fetch", "done"}
      [] pc = "fetch" -> {"fetch", "write", "done"}
      [] pc = "write" -> {"repair_written", "done"}
      [] pc = "repair_existing" -> {"done"}
      [] pc = "repair_written" -> {"done"}
      [] pc = "done" -> {"consumed"}
      [] OTHER -> {}

\* C31: within one task of download_batch the steps are strictly ordered
\* (check, then fetch or skip, then write, then repair).  The write is
\* reached only from a fetch whose response had a success status and a
\* non-empty body; the repairs are reached only from a write that left the
\* fetched bytes in the file or from the check that found the file; a task
\* that called a repair wrote or found its file; and a task past its fetch
\* never fetches again.
C31_TaskStepsInOrder ==
    /\ [][\A i \in Tasks :
            (InBatch /\ task'[i] # task[i]) =>
                /\ task'[i].pc \in StepsFrom(task[i].pc)
                /\ task'[i].pc = "write" =>
                        /\ task[i].pc = "fetch"
                        /\ task'[i].resp = BodyOk
                        /\ task'[i].bytes = "data"
                /\ task'[i].pc = "repair_written" =>
                        /\ task[i].pc = "write"
                        /\ files'[build_path(dates[i])] = "new"
                /\ task'[i].pc = "repair_existing" =>
                        /\ task[i].pc = "check"
                        /\ files[build_path(dates[i])] # "none"
                /\ task[i].pc \in {"write", "repair_written", "repair_existing"}
                        => task'[i].resp = task[i].resp]_vars
    /\ [](\A i \in Tasks :
            (InBatch /\ task[i].pc # "consumed") =>
                /\ task[i].writes > 0 => task[i].resp = BodyOk /\ task[i].pc # "fetch"
                /\ task[i].pc = "write" => task[i].writes = 0
                /\ task[i].exif_calls + task[i].time_calls > 0 =>
                        \/ task[i].writes = 1 /\ task[i].result.kind = "downloaded"
                        \/ task[i].found = "exists" /\ task[i].writes = 0)

\* a task of download_batch went through every step: the file was missing,
\* a request brought the body, the bytes were written and the metadata
\* repaired
C31_Witness ==
    /\ InBatch
    /\ \E i \in Tasks :
        /\ task[i].pc = "done"
        /\ task[i].found = "missing"
        /\ task[i].resp = BodyOk
        /\ task[i].writes = 1
        /\ task[i].exif_calls = 1
        /\ task[i].time_calls = 1
        /\ files[build_path(dates[i])] = "new"
        /\ exif_time[build_path(dates[i])] = Midnight(dates[i])

\* C32: with overwrite = true the check never skips: a task that found its
\* file goes on to fetch, the write that follows a successful fetch
\* replaces the file's content and ends in the outcome downloaded, which the
\* aggregation loop counts as succeeded; and no task ends already-existed or
\* runs the repairs of the skip branch, through download_batch and through
\* Downloader::download.
C32_OverwriteFetchesAgain ==
    /\ [](overwrite =>
            /\ \A i \in Tasks :
                /\ task[i].result.kind # "existed"
                /\ task[i].pc # "repair_existing"
                /\ (task[i].found = "exists" /\ task[i].pc = "done")
                        => task[i].resp # NoResponse
                /\ (task[i].pc = "done" /\ task[i].result.kind = "downloaded")
                        => task[i].writes = 1
            /\ stats.skipped = 0
            /\ InBatch => stats.succeeded = Cardinality(ConsumedWith("downloaded")))
    /\ [][\A i \in Tasks :
            (overwrite /\ task[i].found = "unchecked" /\ task'[i].found = "exists")
                => task'[i].pc = "fetch"]_vars
    /\ [][\A i \in Tasks :
            (/\ overwrite
             /\ task[i].found = "exists"
             /\ task[i].pc = "write"
             /\ task'[i].pc \in {"repair_written", "done"}
             /\ task'[i].result.kind # "failed") =>
                /\ files[build_path(dates[i])] # "none"
                /\ files'[build_path(dates[i])] \in {"new", "empty"}
                /\ task'[i].pc = "done" => task'[i].result.kind = "downloaded"]_vars

\* a task of download_batch with overwrite = true found its file, fetched
\* it again, replaced it and ended downloaded
C32_Witness ==
    /\ InBatch
    /\ overwrite
    /\ \E i \in Tasks :
        /\ task[i].pc = "done"
        /\ task[i].found = "exists"
        /\ task[i].resp = BodyOk
        /\ task[i].writes = 1
        /\ task[i].result.kind = "downloaded"
        /\ files[build_path(dates[i])] = "new"

\* succeeded + failed + skipped
Counted(s) == s.succeeded + s.failed + s.skipped

\* C33: the statistics of download_batch change only in a step in which
\* the aggregation loop consumes the output of one finished task, and then
\* exactly one counter grows by one: no step of a task that is checking,
\* fetching, writing or repairing changes them, no counter ever decreases,
\* a consumed task is never consumed again, and in every state succeeded +
\* failed + skipped is the number of tasks consumed, at most the number of
\* tasks that have finished.
C33_StatsOnlyByCoordinator ==
    /\ [][stats' # stats =>
            /\ \E i \in Tasks :
                /\ task[i].pc = "done"
                /\ task'[i].pc = "consumed"
                /\ \A j \in Tasks \ {i} : task'[j] = task[j]
            /\ Counted(stats') = Counted(stats) + 1
            /\ stats'.total = stats.total]_vars
    /\ [][/\ stats'.succeeded >= stats.succeeded
          /\ stats'.failed >= stats.failed
          /\ stats'.skipped >= stats.skipped
          /\ \A i \in Tasks :
                /\ (task[i].pc \in WorkPcs /\ task'[i] # task[i]) => stats' = stats
                /\ (task[i].pc = "done" /\ task'[i].pc = "consumed") => stats' # stats
                /\ task[i].pc = "consumed" => task'[i] = task[i]]_vars
    /\ [](InBatch =>
            /\ Counted(stats) = Cardinality({ i \in Tasks : task[i].pc = "consumed" })
            /\ Counted(stats) <=
                    Cardinality({ i \in Tasks : task[i].pc \in {"done", "consumed"} }))

\* the failure of one task has been counted while another task is still
\* fetching
C33_Witness ==
    /\ InBatch
    /\ Len(dates) = 2
    /\ stats.failed = 1
    /\ Counted(stats) = 1
    /\ \E i, j \in Tasks :
        /\ task[i].pc = "consumed"
        /\ task[i].result.kind = "failed"
        /\ task[j].pc = "fetch"
        /\ task[j].attempt = 1

\* C34 (as claimed): after a run command the persisted start_date is the
\* greatest downloaded date when a date was downloaded, no override was
\* given and that date is later than the current start_date; otherwise it
\* is the current start_date, so it never moves backwards.
C34_StartDateAdvanced ==
    (call.fn = "run_command" /\ call.done) =>
        LET start_date == call.arg.start_date
            advance == /\ DownloadedDates # {}
                       /\ ~call.arg.start_date_override
                       /\ ~date_le(max_date(DownloadedDates), start_date)
        IN  /\ date_le(start_date, call.ret)
            /\ call.ret = IF advance THEN max_date(DownloadedDates) ELSE start_date

\* C35: with every request eventually answered, download_batch eventually
\* returns if max_concurrent >= 1 or the date list is empty; with
\* max_concurrent = 0 and a non-empty list it never returns: the first
\* acquisition never completes, so no task is ever admitted.
C35_ReturnsIffPermits ==
    /\ (max_concurrent >= 1 \/ Len(dates) = 0) ~> returned
    /\ []((max_concurrent = 0 /\ Len(dates) > 0) =>
            /\ ~returned
            /\ next_date = 0
            /\ tasks = {}
            /\ ~ENABLED Next)

\* download_batch returned after its second date had waited for the only
\* permit, which the failed task of the first date gave back
C35_Witness ==
    /\ InBatch
    /\ returned
    /\ max_concurrent = 1
    /\ Len(dates) = 2
    /\ task[1].result.kind = "failed"
    /\ task[2].result.kind = "downloaded"
    /\ permits = 1

\* C36: in download_batch the free permits and the permits held by tasks
\* add up to max_concurrent in every state; a task holds a permit from its
\* admission on, gives it back once, in the step in which it finishes, and
\* never holds one again; when download_batch returns every task has given
\* its permit back and all max_concurrent permits are free.
C36_PermitsConserved ==
    /\ [](InBatch =>
            /\ permits >= 0
            /\ permits + Cardinality(Holders) = max_concurrent
            /\ \A i \in Tasks :
                /\ task[i].permit = "none" <=> task[i].pc = "pending"
                /\ task[i].permit = "held" <=> task[i].pc \in WorkPcs
                /\ task[i].permit = "released" <=> task[i].pc \in {"done", "consumed"}
            /\ returned =>
                /\ permits = max_concurrent
                /\ \A i \in Tasks : task[i].permit = "released")
    /\ [][InBatch =>
            /\ \A i \in Tasks :
                /\ task[i].permit = "none" => task'[i].permit \in {"none", "held"}
                /\ task[i].permit = "held" => task'[i].permit \in {"held", "released"}
                /\ task[i].permit = "released" => task'[i].permit = "released"
            /\ permits' - permits =
                    Cardinality({ i \in Tasks : task[i].permit = "held"
                                                /\ task'[i].permit = "released" })
                    - Cardinality({ i \in Tasks : task[i].permit = "none"
                                                  /\ task'[i].permit = "held" })]_vars

\* download_batch returned with both permits free: the write of the first
\* date failed, the second date was skipped
C36_Witness ==
    /\ InBatch
    /\ returned
    /\ max_concurrent = 2
    /\ permits = 2
    /\ Len(dates) = 2
    /\ task[1].result = ResultErr(dates[1], FileError)
    /\ task[2].result.kind = "existed"

\* C37 (as claimed): in download_batch with overwrite = false and
\* max_concurrent >= 1, of two tasks of the same date at most one fetches
\* and writes the file, the later one finding it: they never both end
\* downloaded.
C37_SameDateFetchedOnce ==
    (InBatch /\ ~overwrite /\ max_concurrent >= 1) =>
        \A i, j \in Tasks :
            (i < j /\ dates[i] = dates[j]) =>
                ~(task[i].result.kind = "downloaded"
                    /\ task[j].result.kind = "downloaded")

\* C38: a task of download_batch that fails in its fetch (a 404, an error
\* that is not retried, the last attempt) has changed no file: no step of a
\* task that is checking or fetching changes a file, such a task has called
\* no write, and where it was the only task of the batch its target is as
\* it was before the batch: absent, or with its previous content under
\* overwrite = true.
C38_FailedFetchLeavesFile ==
    /\ [][\A i \in Tasks :
            (InBatch /\ task[i].pc \in {"check", "fetch"} /\ task'[i] # task[i]) =>
                /\ files' = files
                /\ exif_time' = exif_time
                /\ file_time' = file_time
                /\ task'[i].writes = 0]_vars
    /\ [](\A i \in Tasks :
            (/\ InBatch
             /\ task[i].pc = "done"
             /\ task[i].result.kind = "failed"
             /\ task[i].result.error # FileError) =>
                /\ task[i].writes = 0
                /\ task[i].bytes = "none"
                /\ Len(dates) = 1 =>
                        files[build_path(dates[i])] =
                            IF task[i].found = "exists" THEN "old" ELSE "none")

\* download_batch with overwrite = true: the request for a date whose file
\* exists was answered 403, and the file is as it was
C38_Witness ==
    /\ InBatch
    /\ overwrite
    /\ Len(dates) = 1
    /\ task[1].pc = "done"
    /\ task[1].found = "exists"
    /\ task[1].result = ResultErr(dates[1], HttpError(403))
    /\ files[build_path(dates[1])] = "old"

\* C39: a task of download_batch sends at most MAX_RETRIES + 1 = 4
\* requests whatever the responses and whatever the RetryConfig of the
\* Downloader: each request is sent under an attempt index of 0..3 of its
\* own (a request followed by another raises the index by one); a task on
\* the skip path sends none; and the response with a success status and a
\* non-empty body is the task's last, no request following once the task
\* has left its fetch.
C39_BatchAtMostFourRequests ==
    /\ [](InBatch =>
            /\ MAX_RETRIES + 1 = 4
            /\ \A i \in Tasks :
                /\ task[i].attempt \in 0..MAX_RETRIES
                /\ (task[i].found = "exists" /\ ~overwrite) =>
                        task[i].resp = NoResponse /\ task[i].pc # "fetch"
                /\ task[i].resp = BodyOk => task[i].pc # "fetch")
    /\ [][\A i \in Tasks :
            (InBatch /\ task'[i] # task[i]) =>
                /\ task[i].pc = "fetch" =>
                        /\ task[i].attempt <= MAX_RETRIES
                        /\ task'[i].pc = "fetch" =>
                                task'[i].attempt = task[i].attempt + 1
                /\ task[i].pc # "fetch" =>
                        /\ task[i].pc # "check" => task'[i].pc # "fetch"
                        /\ task'[i].pc # "consumed" => task'[i].resp = task[i].resp]_vars

\* a Downloader configured with max_retries = 0: a task of its batch failed
\* on its fourth request
C39_Witness ==
    /\ InBatch
    /\ retry_config.max_retries = 0
    /\ ~retry_config.enabled
    /\ \E i \in Tasks :
        /\ task[i].pc = "done"
        /\ task[i].attempt = MAX_RETRIES
        /\ task[i].resp = Status(429)
        /\ task[i].result.kind = "failed"

\* C40: neither retry loop falls through.  No task is ever at
\* unreachable!(); the attempt index of a task never leaves the range of
\* its loop (0..=MAX_RETRIES in download_batch, 0..=max_retries in
\* download_with_retry, for every max_retries >= 0); and a step of the final
\* attempt never leads to another fetch: it ends the task or yields the
\* body to the write.
C40_RetryLoopsNeverFallThrough ==
    /\ [](\A i \in Tasks :
            /\ task[i].pc # "unreachable"
            /\ task[i].attempt \in 0..LastAttempt)
    /\ [][\A i \in Tasks :
            (/\ task[i].pc \in {"fetch", "write"}
             /\ task[i].attempt = LastAttempt
             /\ task'[i] # task[i]) =>
                /\ task'[i].pc \in {"write", "repair_written", "done"}
                /\ task'[i].pc = "done" => task'[i].result.kind # "none"]_vars

\* Downloader::download with retry enabled and max_retries = 0: the only
\* iteration of the loop failed on a retryable error and returned it
C40_Witness ==
    /\ entry = "download"
    /\ retry_config.max_retries = 0
    /\ retry_config.enabled
    /\ task[1].pc = "done"
    /\ task[1].attempt = 0
    /\ task[1].resp = BodyErr(MsgDecode)
    /\ task[1].result = ResultErr(dates[1], NetworkError(MsgDecode))

====
